---------------------------- MODULE Spec2Model ----------------------------
(***************************************************************************)
(* A model of the netgraph compilation engine (netgraph/src/app.rs and     *)
(* netgraph/src/app/nf_graph): the graph of filter nodes, the cycle guard  *)
(* and direction inference that run on every completed connection, the     *)
(* memoized path collector, and the lowering of a condition path into      *)
(* nftables chain and rule objects.                                        *)
(*                                                                         *)
(* Data representation.  A node is a record [kind, arg]: kind is the name  *)
(* of the NFNodeData variant, arg its payload as a sequence of strings     *)
(* (<<>> for a unit variant and for FileIpList(None), <<s>> for a String   *)
(* payload and for FileIpList(Some(s))).  Nodes live in slots 1..Len(nodes)*)
(* (the slot map); a freed slot holds NoNode.  An input port is <<n, j>>,  *)
(* an output port <<n, k>>: the j-th input, the k-th output of node n.     *)
(* connections is the SecondaryMap<OutputId, InputId>: a function from the *)
(* connected outputs to the input each one feeds.                          *)
(***************************************************************************)
EXTENDS Integers, Sequences, FiniteSets, TLC

VARIABLES
    nodes,          \* editor_state.graph.nodes: slot -> [kind, arg]
    connections,    \* editor_state.graph.connections: OutputId -> InputId
    in_dir,         \* editor_state.graph.inputs[i].typ.direction
    out_dir,        \* editor_state.graph.outputs[o].typ.direction
    last_event,     \* the UI event handled last and what the cycle guard said
    export,         \* what the last export_configuration computed
    lpath,          \* evaluate_path: the path being lowered
    pos,            \* evaluate_path: the position of the loop in the path
    lower,          \* evaluate_path: chain_name, current_subpath, is_incoming, objects
    this_node_inputs, \* node_outputs: the incoming paths it is called with
    node_output,    \* what the last call of apply_node or node_outputs returned
    compared,       \* DataType::eq: the two types compared and the result
    bridge          \* apply_custom_node: its arguments, its position, the child

graph_vars == <<nodes, connections, in_dir, out_dir>>
lower_vars == <<lpath, pos, lower>>
call_vars == <<this_node_inputs, node_output>>
vars == <<nodes, connections, in_dir, out_dir, last_event, export, lpath, pos, lower,
          this_node_inputs, node_output, compared, bridge>>

-----------------------------------------------------------------------------
(* Bounds of the model *)

\* Number of node slots the editor may fill (Source and Localhost included).
MaxNodes == 3

-----------------------------------------------------------------------------
(* Small helpers *)

Last(s) == s[Len(s)]

RECURSIVE Concat(_)
\* Vec<Vec<T>>::concat / Iterator::flatten on a sequence of sequences
Concat(ss) == IF ss = <<>> THEN <<>> ELSE Head(ss) \o Concat(Tail(ss))

RECURSIVE SetToSeq(_)
\* the elements of a set of port or node ids in increasing key order:
\* iteration order of a slot map whose keys were allocated in that order
SetToSeq(S) ==
    IF S = {} THEN <<>>
    ELSE LET m == CHOOSE x \in S : \A y \in S :
                      \/ x[1] < y[1]
                      \/ (x[1] = y[1] /\ x[2] <= y[2])
         IN  <<m>> \o SetToSeq(S \ {m})

-----------------------------------------------------------------------------
(* Node kinds and their ports: NFNodeData and NodeTemplateTrait::build_node *)

NoNode == [kind |-> "none", arg |-> <<>>]

FilterKinds ==
    {"SourceAddressFilter", "DestinationAddressFilter", "SourcePortFilter",
     "DestinationPortFilter", "ProtocolFilter", "InterfaceFilter"}

NatKinds == {"SourceNAT", "DestinationNAT"}

\* NodeTemplateIter::all_kinds: the templates the node finder offers
all_kinds ==
    <<"InterfaceFilter", "FileIpList", "SourceAddressFilter",
      "DestinationAddressFilter", "SourcePortFilter", "DestinationPortFilter",
      "ProtocolFilter", "FamilySplitter", "SourceNAT", "DestinationNAT",
      "Drop", "Accept">>

\* the payload of a freshly instantiated template: String::new() or None
TemplateArg(kind) ==
    IF kind \in FilterKinds \cup NatKinds THEN <<"">> ELSE <<>>

\* build_node, first match: the input ports as a sequence of [family, direction]
build_inputs(kind) ==
    CASE kind \in FilterKinds \cup NatKinds \cup {"FileIpList", "FamilySplitter", "Drop"}
             -> << [family |-> "Inet", direction |-> "Either"] >>
      [] kind = "Accept"    -> << [family |-> "Inet", direction |-> "Outgoing"] >>
      [] kind = "Localhost" -> << [family |-> "Inet", direction |-> "Incoming"] >>
      [] OTHER              -> << >>

\* build_node, second match: the output ports as a sequence of [name, family, direction]
build_outputs(kind) ==
    CASE kind = "Source"
             -> << [name |-> "incoming", family |-> "Inet", direction |-> "Incoming"] >>
      [] kind \in FilterKinds \cup {"FileIpList"}
             -> << [name |-> "match", family |-> "Inet", direction |-> "Either"],
                   [name |-> "non-match", family |-> "Inet", direction |-> "Either"] >>
      [] kind = "Localhost"
             -> << [name |-> "outgoing", family |-> "Inet", direction |-> "Outgoing"] >>
      [] kind = "FamilySplitter"
             -> << [name |-> "ipv4", family |-> "IPv4", direction |-> "Either"],
                   [name |-> "ipv6", family |-> "IPv6", direction |-> "Either"] >>
      [] kind \in NatKinds
             -> << [name |-> "", family |-> "Inet", direction |-> "Either"] >>
      [] OTHER -> << >>

\* a can_delete that protects the Source node only
can_delete_protects_source_only(kind) == kind # "Source"

\* NodeDataTrait::can_delete
can_delete(kind) == kind \notin {"Source", "Localhost"}

-----------------------------------------------------------------------------
(* Port types: DataType is [family, direction] *)

NFFamily == {"Inet", "IPv4", "IPv6"}
NFDirection == {"Either", "Incoming", "Outgoing"}

DataType == [family : NFFamily, direction : NFDirection]

\* PartialEq::eq with self taken literally: only self's wildcards count
data_type_eq_self_wildcard(self, other) ==
    /\ \/ self.direction = "Either"
       \/ self.direction = other.direction
    /\ \/ self.family = "Inet"
       \/ self.family = other.family

\* impl PartialEq for DataType
data_type_eq(self, other) ==
    /\ \/ self.direction = "Either"
       \/ other.direction = "Either"
       \/ self.direction = other.direction
    /\ \/ self.family = "Inet"
       \/ other.family = "Inet"
       \/ self.family = other.family

\* no comparison of two types observed
NoComparison == [done |-> FALSE]

\* apply_custom_node not entered
NoBridge == [pc |-> "none"]

-----------------------------------------------------------------------------
(* Reading the graph *)

NodeIds(ns) == {n \in DOMAIN ns : ns[n].kind # "none"}

\* node.inputs / node.outputs as sequences of port ids
NodeInputs(ns, n)  == [j \in 1..Len(build_inputs(ns[n].kind))  |-> <<n, j>>]
NodeOutputs(ns, n) == [k \in 1..Len(build_outputs(ns[n].kind)) |-> <<n, k>>]

InputIds(ns) ==
    {p \in (DOMAIN ns) \X {1} :
        ns[p[1]].kind # "none" /\ Len(build_inputs(ns[p[1]].kind)) >= p[2]}

OutputIds(ns) ==
    {p \in (DOMAIN ns) \X {1, 2} :
        ns[p[1]].kind # "none" /\ Len(build_outputs(ns[p[1]].kind)) >= p[2]}

OutputName(ns, o) == build_outputs(ns[o[1]].kind)[o[2]].name

\* get_receiving_node: Some(node) as <<node>>, None as <<>>
get_receiving_node(ns, conns, output_id) ==
    IF output_id \notin DOMAIN conns THEN <<>>
    ELSE IF conns[output_id] \notin InputIds(ns) THEN <<>>
    ELSE << conns[output_id][1] >>

\* get_sending_nodes: one entry per connection that ends at input_id
get_sending_nodes(ns, conns, input_id) ==
    LET outs == SetToSeq({o \in DOMAIN conns : conns[o] = input_id})
    IN  [x \in 1..Len(outs) |-> outs[x][1]]

\* get_connected_receiver_nodes
get_connected_receiver_nodes(ns, conns, node_id) ==
    IF node_id \notin NodeIds(ns) THEN <<>>
    ELSE LET outs == NodeOutputs(ns, node_id)
         IN  Concat([k \in 1..Len(outs) |-> get_receiving_node(ns, conns, outs[k])])

\* get_connected_sender_nodes
get_connected_sender_nodes(ns, conns, node_id) ==
    IF node_id \notin NodeIds(ns) THEN <<>>
    ELSE LET ins == NodeInputs(ns, node_id)
         IN  Concat([j \in 1..Len(ins) |-> get_sending_nodes(ns, conns, ins[j])])

-----------------------------------------------------------------------------
(* Reachability over the node-feeds-node relation, for the statements below *)

\* n feeds m: some output of n is connected to an input of m
Feeds(ns, conns, n, m) ==
    \E o \in DOMAIN conns : o[1] = n /\ conns[o][1] = m

RECURSIVE ReachSet(_, _, _)
\* the nodes reachable from the set S in zero or more steps
ReachSet(ns, conns, S) ==
    LET T == S \cup {m \in NodeIds(ns) : \E n \in S : Feeds(ns, conns, n, m)}
    IN  IF T = S THEN S ELSE ReachSet(ns, conns, T)

\* m is reachable from n in one or more steps
ReachesPlus(ns, conns, n, m) ==
    m \in ReachSet(ns, conns, {x \in NodeIds(ns) : Feeds(ns, conns, n, x)})

Acyclic(ns, conns) == \A n \in NodeIds(ns) : ~ReachesPlus(ns, conns, n, n)

-----------------------------------------------------------------------------
(* Cycle guard: App::break_loops.  TRUE models Some(()), FALSE models None. *)

RECURSIVE break_loops_loop(_, _, _, _)
break_loops_loop(ns, conns, root_node_id, stack) ==
    IF stack = <<>> THEN FALSE                       \* stack.last()? is None
    ELSE
      LET top == Last(stack) IN
      IF top.index < Len(top.subtree)
      THEN LET node_id == top.subtree[top.index + 1] IN
           IF node_id = root_node_id THEN TRUE       \* return Some(())
           ELSE break_loops_loop(ns, conns, root_node_id,
                  Append([stack EXCEPT ![Len(stack)].index = top.index + 1],
                         [index |-> 0,
                          subtree |-> get_connected_receiver_nodes(ns, conns, node_id)]))
      ELSE break_loops_loop(ns, conns, root_node_id, SubSeq(stack, 1, Len(stack) - 1))

\* a guard that reports a cycle as soon as the owning node feeds any node
break_loops_any_receiver(ns, conns, output_id) ==
    /\ output_id \in OutputIds(ns)
    /\ get_connected_receiver_nodes(ns, conns, output_id[1]) # << >>

\* a guard that overlooks a node fed by itself directly: the walk starts
\* from the other receivers of the owning node only
break_loops_misses_self_loop(ns, conns, output_id) ==
    IF output_id \notin OutputIds(ns) THEN FALSE
    ELSE LET root_node_id == output_id[1]
             NotRoot(n) == n # root_node_id
         IN  break_loops_loop(ns, conns, root_node_id,
               << [index |-> 0,
                   subtree |-> SelectSeq(get_connected_receiver_nodes(ns, conns, root_node_id),
                                         NotRoot)] >>)

break_loops(ns, conns, output_id) ==
    IF output_id \notin OutputIds(ns) THEN FALSE
    ELSE LET root_node_id == output_id[1]
         IN  break_loops_loop(ns, conns, root_node_id,
               << [index |-> 0,
                   subtree |-> get_connected_receiver_nodes(ns, conns, root_node_id)] >>)

-----------------------------------------------------------------------------
(* Direction inference: App::propagate_data_types / propagate_to_node.     *)
(* The port directions are threaded through as a record [i, o].            *)

RECURSIVE propagate_outputs(_, _, _, _, _)
RECURSIVE propagate_to_node(_, _, _, _, _)

\* the body of propagate_to_node's loop over node.outputs, from output k on
propagate_outputs(ns, conns, dirs, outs, direction) ==
    IF outs = <<>> THEN dirs
    ELSE
      LET output_id == Head(outs)
          d1 == [dirs EXCEPT !.o[output_id] = direction]
          d2 == IF output_id \in DOMAIN conns
                THEN propagate_to_node(ns, conns, d1, conns[output_id], direction)
                ELSE d1
      IN  propagate_outputs(ns, conns, d2, Tail(outs), direction)

\* propagate_to_node leaving alone an input that is pinned already
propagate_to_node_stops_at_pinned(ns, conns, dirs, input_id, direction) ==
    IF input_id \notin DOMAIN dirs.i THEN dirs
    ELSE IF dirs.i[input_id] # "Either" THEN dirs
    ELSE propagate_outputs(ns, conns,
                           [dirs EXCEPT !.i[input_id] = direction],
                           NodeOutputs(ns, input_id[1]), direction)

propagate_to_node(ns, conns, dirs, input_id, direction) ==
    IF input_id \notin DOMAIN dirs.i THEN dirs       \* inputs.get_mut(input_id)?
    ELSE propagate_outputs(ns, conns,
                           [dirs EXCEPT !.i[input_id] = direction],
                           NodeOutputs(ns, input_id[1]), direction)

\* propagate_data_types without the test of the input's direction
propagate_data_types_overrides_pinned(ns, conns, dirs, input_id, output_id) ==
    IF input_id \notin DOMAIN dirs.i \/ output_id \notin DOMAIN dirs.o THEN dirs
    ELSE IF dirs.o[output_id] = "Either" THEN dirs
    ELSE propagate_to_node(ns, conns, dirs, input_id, dirs.o[output_id])

\* propagate_data_types working one hop per call: a call pins the input, and
\* only a call that finds the input pinned to the output's direction goes on
\* to the outputs of the node
propagate_data_types_one_hop(ns, conns, dirs, input_id, output_id) ==
    IF input_id \notin DOMAIN dirs.i \/ output_id \notin DOMAIN dirs.o THEN dirs
    ELSE IF dirs.o[output_id] = "Either" THEN dirs
    ELSE IF dirs.i[input_id] = "Either"
    THEN [dirs EXCEPT !.i[input_id] = dirs.o[output_id]]
    ELSE IF dirs.i[input_id] = dirs.o[output_id]
    THEN propagate_to_node(ns, conns, dirs, input_id, dirs.o[output_id])
    ELSE dirs

propagate_data_types(ns, conns, dirs, input_id, output_id) ==
    IF input_id \notin DOMAIN dirs.i \/ output_id \notin DOMAIN dirs.o THEN dirs
    ELSE IF dirs.o[output_id] = "Either" THEN dirs
    ELSE IF dirs.i[input_id] # "Either" THEN dirs
    ELSE propagate_to_node(ns, conns, dirs, input_id, dirs.o[output_id])

-----------------------------------------------------------------------------
(* Predicate evaluator: NFNodeData::get_id, App::apply_node and            *)
(* App::node_outputs.  A Predicate is [variant, params], params a function *)
(* from parameter names to strings.  A Result is [ok, val, err].           *)

EmptyParams == [k \in {} |-> ""]

Ok(v) == [ok |-> TRUE, val |-> v, err |-> ""]
Err(e) == [ok |-> FALSE, val |-> <<>>, err |-> e]

\* NFNodeData::get_id for the built-in kinds
get_id(kind) ==
    CASE kind = "Source"                   -> "core:source"
      [] kind = "FileIpList"               -> "core:file_ip_list"
      [] kind = "SourceAddressFilter"      -> "core:source_address_filter"
      [] kind = "DestinationAddressFilter" -> "core:destination_address_filter"
      [] kind = "SourcePortFilter"         -> "core:source_port_filter"
      [] kind = "DestinationPortFilter"    -> "core:destination_port_filter"
      [] kind = "ProtocolFilter"           -> "core:protocol_filter"
      [] kind = "FamilySplitter"           -> "core:family_splitter"
      [] kind = "SourceNAT"                -> "core:source_nat"
      [] kind = "DestinationNAT"           -> "core:destination_nat"
      [] kind = "Drop"                     -> "core:drop"
      [] kind = "Accept"                   -> "core:accept"
      [] kind = "Localhost"                -> "core:localhost"
      [] kind = "InterfaceFilter"          -> "core:interface_filter"

Predicate(variant, params) == [variant |-> variant, params |-> params]

\* apply_node with the arm of Localhost, Accept and Drop returning the new
\* predicate alone, the incoming path dropped
apply_node_drops_prefix(input, node_data, output_name) ==
    LET id == get_id(node_data.kind) IN
    CASE node_data.kind = "FileIpList" ->
           IF node_data.arg = <<>> THEN Err("IP List file is required")
           ELSE Ok(input \o << Predicate(id, [path |-> node_data.arg[1],
                                              rule |-> output_name]) >>)
      [] node_data.kind \in FilterKinds ->
           Ok(input \o << Predicate(id, [filter |-> node_data.arg[1],
                                         rule |-> output_name]) >>)
      [] node_data.kind \in NatKinds ->
           Ok(input \o << Predicate(id, [addr |-> node_data.arg[1]]) >>)
      [] node_data.kind \in {"Localhost", "Accept", "Drop"} ->
           Ok(<< Predicate(id, EmptyParams) >>)
      [] node_data.kind = "FamilySplitter" ->
           Ok(input \o << Predicate(id, [family |-> output_name]) >>)
      [] node_data.kind = "Source" ->
           Ok(<< Predicate(id, EmptyParams) >>)

\* apply_node letting an IP list with no file set pass the path through
apply_node_unset_file_passes(input, node_data, output_name) ==
    LET id == get_id(node_data.kind) IN
    CASE node_data.kind = "FileIpList" ->
           IF node_data.arg = <<>> THEN Ok(input)
           ELSE Ok(input \o << Predicate(id, [path |-> node_data.arg[1],
                                              rule |-> output_name]) >>)
      [] node_data.kind \in FilterKinds ->
           Ok(input \o << Predicate(id, [filter |-> node_data.arg[1],
                                         rule |-> output_name]) >>)
      [] node_data.kind \in NatKinds ->
           Ok(input \o << Predicate(id, [addr |-> node_data.arg[1]]) >>)
      [] node_data.kind \in {"Localhost", "Accept", "Drop"} ->
           Ok(input \o << Predicate(id, EmptyParams) >>)
      [] node_data.kind = "FamilySplitter" ->
           Ok(input \o << Predicate(id, [family |-> output_name]) >>)
      [] node_data.kind = "Source" ->
           Ok(<< Predicate(id, EmptyParams) >>)

\* App::apply_node for a built-in node [kind, arg]
apply_node(input, node_data, output_name) ==
    LET id == get_id(node_data.kind) IN
    CASE node_data.kind = "FileIpList" ->
           IF node_data.arg = <<>> THEN Err("IP List file is required")
           ELSE Ok(input \o << Predicate(id, [path |-> node_data.arg[1],
                                              rule |-> output_name]) >>)
      [] node_data.kind \in FilterKinds ->
           Ok(input \o << Predicate(id, [filter |-> node_data.arg[1],
                                         rule |-> output_name]) >>)
      [] node_data.kind \in NatKinds ->
           Ok(input \o << Predicate(id, [addr |-> node_data.arg[1]]) >>)
      [] node_data.kind \in {"Localhost", "Accept", "Drop"} ->
           Ok(input \o << Predicate(id, EmptyParams) >>)
      [] node_data.kind = "FamilySplitter" ->
           Ok(input \o << Predicate(id, [family |-> output_name]) >>)
      [] node_data.kind = "Source" ->
           Ok(<< Predicate(id, EmptyParams) >>)

\* the output names node_outputs iterates over: the node's outputs, or the
\* synthetic "terminal" when it has none
branch_names(kind) ==
    IF build_outputs(kind) = <<>> THEN << "terminal" >>
    ELSE [k \in 1..Len(build_outputs(kind)) |-> build_outputs(kind)[k].name]

\* node_outputs applying the node on its first branch for every entry
node_outputs_first_branch(ns, node_inputs, node_id) ==
    IF node_id \notin NodeIds(ns) THEN Err("Node not found")
    ELSE
      LET node_data == ns[node_id]
          names == branch_names(node_data.kind)
          res == [j \in 1..Len(node_inputs) |->
                    apply_node(node_inputs[j], node_data, names[1])]
      IN  IF \E j \in 1..Len(node_inputs) : ~res[j].ok
          THEN Err("IP List file is required")
          ELSE Ok([name \in {names[k] : k \in 1..Len(names)} |->
                     [j \in 1..Len(node_inputs) |-> res[j].val]])

\* App::node_outputs: Ok(map output name -> paths), or the first Err of apply_node
node_outputs(ns, node_inputs, node_id) ==
    IF node_id \notin NodeIds(ns) THEN Err("Node not found")
    ELSE
      LET node_data == ns[node_id]
          names == branch_names(node_data.kind)
          res == [k \in 1..Len(names) |->
                    [j \in 1..Len(node_inputs) |->
                        apply_node(node_inputs[j], node_data, names[k])]]
          bad == {kj \in (1..Len(names)) \X (1..Len(node_inputs)) : ~res[kj[1]][kj[2]].ok}
      IN  IF bad # {}
          THEN LET first == Head(SetToSeq(bad)) IN Err(res[first[1]][first[2]].err)
          ELSE Ok([name \in {names[k] : k \in 1..Len(names)} |->
                     LET k == CHOOSE k \in 1..Len(names) :
                                 names[k] = name /\ \A k2 \in 1..Len(names) :
                                                       names[k2] = name => k2 <= k
                     IN  [j \in 1..Len(node_inputs) |-> res[k][j].val]])

-----------------------------------------------------------------------------
(* Path collector: App::recurse_node_outputs.  The memo node_output_db is  *)
(* a function node -> NodeOutputs; it is threaded through as [db, trace],  *)
(* trace listing the nodes in the order node_outputs was computed for them.*)

RECURSIVE recurse_node_outputs(_, _, _, _)
RECURSIVE collect_senders(_, _, _, _, _)

\* what one sender contributes: the memoized lists of its outputs that are
\* connected to this_node_input_id, in output order
dep_node_outputs(ns, conns, db, dep_node_id, this_node_input_id) ==
    LET outs == NodeOutputs(ns, dep_node_id)
    IN  Concat([k \in 1..Len(outs) |->
                  IF /\ outs[k] \in DOMAIN conns
                     /\ conns[outs[k]] = this_node_input_id
                     /\ dep_node_id \in DOMAIN db
                     /\ OutputName(ns, outs[k]) \in DOMAIN db[dep_node_id]
                  THEN << db[dep_node_id][OutputName(ns, outs[k])] >>
                  ELSE << >>])

\* the filter_map over get_connected_sender_nodes: [st, lists]
collect_senders(ns, conns, st, senders, this_node_input_id) ==
    IF senders = <<>> THEN [st |-> st, lists |-> <<>>]
    ELSE
      LET dep_node_id == Head(senders)
          r == recurse_node_outputs(ns, conns, dep_node_id, st)
          here == IF r.ok
                  THEN dep_node_outputs(ns, conns, r.st.db, dep_node_id, this_node_input_id)
                  ELSE << >>
          rest == collect_senders(ns, conns, r.st, Tail(senders), this_node_input_id)
      IN  [st |-> rest.st, lists |-> here \o rest.lists]

\* recurse_node_outputs taking a node none of whose inputs is connected for a
\* root, as it takes a node with no input ports
recurse_node_outputs_unconnected_root(ns, conns, this_node_id, st) ==
    IF this_node_id \in DOMAIN st.db THEN [ok |-> TRUE, st |-> st, err |-> ""]
    ELSE IF this_node_id \notin NodeIds(ns)
    THEN [ok |-> FALSE, st |-> st, err |-> "Node not found"]
    ELSE
      LET c == IF get_connected_sender_nodes(ns, conns, this_node_id) = <<>>
               THEN [st |-> st, lists |-> << << <<>> >> >>]
               ELSE collect_senders(ns, conns, st,
                                    get_connected_sender_nodes(ns, conns, this_node_id),
                                    NodeInputs(ns, this_node_id)[1])
          r == node_outputs(ns, Concat(c.lists), this_node_id)
          tr == Append(c.st.trace, this_node_id)
      IN  IF r.ok
          THEN [ok |-> TRUE, err |-> "",
                st |-> [db |-> (this_node_id :> r.val) @@ c.st.db, trace |-> tr]]
          ELSE [ok |-> FALSE, err |-> r.err, st |-> [db |-> c.st.db, trace |-> tr]]

\* recurse_node_outputs without the contains_key test: every call evaluates
recurse_node_outputs_no_memo(ns, conns, this_node_id, st) ==
    IF this_node_id \notin NodeIds(ns)
    THEN [ok |-> FALSE, st |-> st, err |-> "Node not found"]
    ELSE
      LET c == IF NodeInputs(ns, this_node_id) = <<>>
               THEN [st |-> st, lists |-> << << <<>> >> >>]
               ELSE collect_senders(ns, conns, st,
                                    get_connected_sender_nodes(ns, conns, this_node_id),
                                    NodeInputs(ns, this_node_id)[1])
          r == node_outputs(ns, Concat(c.lists), this_node_id)
          tr == Append(c.st.trace, this_node_id)
      IN  IF r.ok
          THEN [ok |-> TRUE, err |-> "",
                st |-> [db |-> (this_node_id :> r.val) @@ c.st.db, trace |-> tr]]
          ELSE [ok |-> FALSE, err |-> r.err, st |-> [db |-> c.st.db, trace |-> tr]]

\* [ok, st, err]: st is the memo after the call, also when the call failed
recurse_node_outputs(ns, conns, this_node_id, st) ==
    IF this_node_id \in DOMAIN st.db THEN [ok |-> TRUE, st |-> st, err |-> ""]
    ELSE IF this_node_id \notin NodeIds(ns)
    THEN [ok |-> FALSE, st |-> st, err |-> "Node not found"]
    ELSE
      LET c == IF NodeInputs(ns, this_node_id) = <<>>
               THEN [st |-> st, lists |-> << << <<>> >> >>]
               ELSE collect_senders(ns, conns, st,
                                    get_connected_sender_nodes(ns, conns, this_node_id),
                                    NodeInputs(ns, this_node_id)[1])
          r == node_outputs(ns, Concat(c.lists), this_node_id)
          tr == Append(c.st.trace, this_node_id)
      IN  IF r.ok
          THEN [ok |-> TRUE, err |-> "",
                st |-> [db |-> (this_node_id :> r.val) @@ c.st.db, trace |-> tr]]
          ELSE [ok |-> FALSE, err |-> r.err, st |-> [db |-> c.st.db, trace |-> tr]]

-----------------------------------------------------------------------------
(* Strings.  Predicate parameters are TLA+ strings; the two string         *)
(* operations of the lowering, split(':').last() and parse(), work on the  *)
(* characters of the configured NAT targets the model uses.                *)

\* the configured NAT targets of the model: with a port and without one
AddrValues == {"192.168.1.5:8080", "192.168.1.5"}

\* the characters of each string of AddrValues
Chars(str) ==
    CASE str = "192.168.1.5:8080" ->
           <<"1","9","2",".","1","6","8",".","1",".","5",":","8","0","8","0">>
      [] str = "192.168.1.5" ->
           <<"1","9","2",".","1","6","8",".","1",".","5">>
      [] str = "" -> << >>

Digits == <<"0","1","2","3","4","5","6","7","8","9">>

DigitValue(c) == (CHOOSE d \in 1..10 : Digits[d] = c) - 1

\* str.split(sep).last(): what follows the last sep, the whole if there is none
split_last(chars, sep) ==
    LET at == {x \in 1..Len(chars) : chars[x] = sep}
    IN  IF at = {} THEN chars
        ELSE SubSeq(chars, (CHOOSE x \in at : \A y \in at : y <= x) + 1, Len(chars))

RECURSIVE DecimalValue(_)
DecimalValue(chars) ==
    IF chars = <<>> THEN 0
    ELSE 10 * DecimalValue(SubSeq(chars, 1, Len(chars) - 1)) + DigitValue(Last(chars))

\* the digits of u32::MAX
U32MaxDigits == <<"4","2","9","4","9","6","7","2","9","5">>

RECURSIVE StripZeros(_)
StripZeros(chars) ==
    IF Len(chars) > 1 /\ Head(chars) = "0" THEN StripZeros(Tail(chars)) ELSE chars

\* the number written by the digits is above u32::MAX
AboveU32(digits) ==
    LET d == StripZeros(digits) IN
    \/ Len(d) > Len(U32MaxDigits)
    \/ /\ Len(d) = Len(U32MaxDigits)
       /\ \E x \in 1..Len(d) :
             /\ DigitValue(d[x]) > DigitValue(U32MaxDigits[x])
             /\ \A y \in 1..(x - 1) : d[y] = U32MaxDigits[y]

\* str::parse for the port, an unsigned 32-bit integer: an optional "+",
\* then one or more decimal digits, the value at most u32::MAX
parse_port(chars) ==
    LET body == IF chars # <<>> /\ Head(chars) = "+" THEN Tail(chars) ELSE chars
    IN  IF body = <<>> \/ \E x \in 1..Len(body) : \A d \in 1..10 : Digits[d] # body[x]
        THEN Err("invalid digit found in string")
        ELSE IF AboveU32(body)
        THEN Err("number too large to fit in target type")
        ELSE Ok(DecimalValue(body))

-----------------------------------------------------------------------------
(* Rule lowering: App::evaluate_path.  The nftables objects are records:   *)
(* a chain [obj, family, table, name, type, hook, policy], a rule [obj,    *)
(* family, table, chain, expr] whose expr is a sequence of statements, a   *)
(* match statement [stmt, left, right, op].  The loop state is the record  *)
(* [chain_name, current_subpath, is_incoming, objects, status, err] with   *)
(* status "run" while the loop runs, "err" after a return Err, "panic"     *)
(* after todo!().                                                          *)

Table == [obj |-> "table", family |-> "inet", name |-> "netgraph"]

Chain(name, type, hook, policy) ==
    [obj |-> "chain", family |-> "inet", table |-> "netgraph", name |-> name,
     type |-> type, hook |-> hook, policy |-> policy]

Rule(chain, expr) ==
    [obj |-> "rule", family |-> "inet", table |-> "netgraph", chain |-> chain,
     expr |-> expr]

Match(left, right, op) == [stmt |-> "match", left |-> left, right |-> right, op |-> op]

NatStmt(which, addr, port) ==
    [stmt |-> which, addr |-> addr, family |-> "ip", port |-> port]

Verdict(which) == [stmt |-> which]

\* the orders in which a HashMap of two parameters may be enumerated
HashOrders == {"ascending", "descending"}

\* the parameter names the built-in predicates use, in alphabetical order
ParamNames == << "addr", "family", "filter", "path", "rule" >>

\* the parameter names of a predicate in the enumeration order `order`
ParamKeys(params, order) ==
    LET InParams(k) == k \in DOMAIN params
        asc == SelectSeq(ParamNames, InParams)
    IN  IF order = "ascending" THEN asc
        ELSE [x \in 1..Len(asc) |-> asc[Len(asc) + 1 - x]]

\* impl Hash for Predicate: the variant, then each key and value as enumerated
predicate_hash_feed(predicate, order) ==
    LET keys == ParamKeys(predicate.params, order)
    IN  << predicate.variant >> \o
        Concat([x \in 1..Len(keys) |-> << keys[x], predicate.params[keys[x]] >>])

\* path.hash(&mut hasher); hasher.finish(): the value is a function of what
\* was fed to the hasher, the length of the path and then each predicate;
\* an injective one here, named by the feed itself
path_hash(path, order) ==
    << Len(path) >> \o Concat([x \in 1..Len(path) |-> predicate_hash_feed(path[x], order)])

lower_init(path, order) ==
    [chain_name |-> [seed |-> path_hash(path, order), offset |-> 0],
     current_subpath |-> << >>,
     is_incoming |-> TRUE,
     objects |-> << >>,
     status |-> "run",
     err |-> ""]

Fail(st, e) == [st EXCEPT !.status = "err", !.err = e]

Statements(current_subpath, last) == current_subpath \o << last >>

\* current_subpath.push(match_rule)
push_match(st, m) == [st EXCEPT !.current_subpath = Append(st.current_subpath, m)]

\* the "core:source_address_filter" arm
arm_source_address_filter(st, predicate) ==
    IF "rule" \notin DOMAIN predicate.params THEN Fail(st, "Rule is required")
    ELSE IF "filter" \notin DOMAIN predicate.params THEN Fail(st, "Filter is required")
    ELSE push_match(st, Match("saddr", predicate.params["filter"],
                              IF predicate.params["rule"] = "match" THEN "==" ELSE "!="))

\* the "core:destination_address_filter" arm
arm_destination_address_filter(st, predicate) ==
    IF "rule" \notin DOMAIN predicate.params THEN Fail(st, "Rule is required")
    ELSE IF "filter" \notin DOMAIN predicate.params THEN Fail(st, "Filter is required")
    ELSE push_match(st, Match("daddr", predicate.params["filter"],
                              IF predicate.params["rule"] = "match" THEN "==" ELSE "!="))

\* the "core:source_port_filter" arm
arm_source_port_filter(st, predicate) ==
    IF "rule" \notin DOMAIN predicate.params THEN Fail(st, "Rule is required")
    ELSE IF "filter" \notin DOMAIN predicate.params THEN Fail(st, "Filter is required")
    ELSE push_match(st, Match("meta l4proto { tcp, udp } th sport", predicate.params["filter"],
                              IF predicate.params["filter"] = predicate.params["rule"] THEN "==" ELSE "!="))

\* the "core:destination_port_filter" arm
arm_destination_port_filter(st, predicate) ==
    IF "rule" \notin DOMAIN predicate.params THEN Fail(st, "Rule is required")
    ELSE IF "filter" \notin DOMAIN predicate.params THEN Fail(st, "Filter is required")
    ELSE push_match(st, Match("meta l4proto { tcp, udp } th dport", predicate.params["filter"],
                              IF predicate.params["rule"] = "match" THEN "==" ELSE "!="))

\* the "core:protocol_filter" arm
arm_protocol_filter(st, predicate) ==
    IF "rule" \notin DOMAIN predicate.params THEN Fail(st, "Rule is required")
    ELSE IF "filter" \notin DOMAIN predicate.params THEN Fail(st, "Filter is required")
    ELSE push_match(st, Match("ip protocol", predicate.params["filter"],
                              IF predicate.params["rule"] = "match" THEN "==" ELSE "!="))

\* the "core:interface_filter" arm matching on iifname whatever is_incoming
arm_interface_filter_always_iifname(st, predicate) ==
    IF "rule" \notin DOMAIN predicate.params THEN Fail(st, "Rule is required")
    ELSE IF "filter" \notin DOMAIN predicate.params THEN Fail(st, "Filter is required")
    ELSE push_match(st, Match("iifname",
                              predicate.params["filter"],
                              IF predicate.params["rule"] = "match" THEN "==" ELSE "!="))

\* the "core:interface_filter" arm
arm_interface_filter(st, predicate) ==
    IF "rule" \notin DOMAIN predicate.params THEN Fail(st, "Rule is required")
    ELSE IF "filter" \notin DOMAIN predicate.params THEN Fail(st, "Filter is required")
    ELSE push_match(st, Match(IF st.is_incoming THEN "iifname" ELSE "oifname",
                              predicate.params["filter"],
                              IF predicate.params["rule"] = "match" THEN "==" ELSE "!="))

\* the "core:family_splitter" arm
arm_family_splitter(st, predicate) ==
    IF "family" \notin DOMAIN predicate.params THEN Fail(st, "Family is required")
    ELSE push_match(st, Match("nfproto", predicate.params["family"], "=="))

\* the "core:file_ip_list" arm: todo!()
arm_file_ip_list(st, predicate) ==
    [st EXCEPT !.status = "panic", !.err = "not yet implemented: File IP list rules"]

\* the NAT arms seeding the post-NAT match without clearing the buffer
nat_arm_keeps_buffer(st, predicate, which, left) ==
    LET hook == IF st.is_incoming THEN "Input" ELSE "Output" IN
    IF "addr" \notin DOMAIN predicate.params THEN Fail(st, "Address is required")
    ELSE
      LET addr == predicate.params["addr"]
          port == parse_port(split_last(Chars(addr), ":"))
      IN  IF ~port.ok THEN Fail(st, port.err)
          ELSE [st EXCEPT
                  !.objects = st.objects \o
                      << Chain(st.chain_name, "NAT", hook, "Accept"),
                         Rule(st.chain_name,
                              Statements(st.current_subpath,
                                         NatStmt(which, addr, port.val))) >>,
                  !.chain_name = [st.chain_name EXCEPT !.offset = @ + 1],
                  !.current_subpath = Append(st.current_subpath, Match(left, addr, "=="))]

\* what the two NAT arms share; which is "snat" or "dnat", left the field of
\* the match pushed after the flush
nat_arm(st, predicate, which, left) ==
    LET hook == IF st.is_incoming THEN "Input" ELSE "Output" IN
    IF "addr" \notin DOMAIN predicate.params THEN Fail(st, "Address is required")
    ELSE
      LET addr == predicate.params["addr"]
          port == parse_port(split_last(Chars(addr), ":"))
      IN  IF ~port.ok THEN Fail(st, port.err)
          ELSE [st EXCEPT
                  !.objects = st.objects \o
                      << Chain(st.chain_name, "NAT", hook, "Accept"),
                         Rule(st.chain_name,
                              Statements(st.current_subpath,
                                         NatStmt(which, addr, port.val))) >>,
                  !.chain_name = [st.chain_name EXCEPT !.offset = @ + 1],
                  !.current_subpath = << Match(left, addr, "==") >>]

\* the "core:source_nat" arm
arm_source_nat(st, predicate) == nat_arm(st, predicate, "snat", "saddr")

\* the "core:destination_nat" arm
arm_destination_nat(st, predicate) == nat_arm(st, predicate, "dnat", "daddr")

\* the "core:source" arm
arm_source(st, predicate) == [st EXCEPT !.is_incoming = TRUE]

\* the "core:localhost" arm without chain_name += 1
arm_localhost_keeps_chain_name(st, predicate) ==
    [st EXCEPT
       !.objects = st.objects \o
           << Chain(st.chain_name, "Filter", "Input", "Drop"),
              Rule(st.chain_name, Statements(st.current_subpath, Verdict("accept"))) >>,
       !.current_subpath = << >>,
       !.is_incoming = FALSE]

\* the "core:localhost" arm leaving is_incoming as it was
arm_localhost_keeps_direction(st, predicate) ==
    [st EXCEPT
       !.objects = st.objects \o
           << Chain(st.chain_name, "Filter", "Input", "Drop"),
              Rule(st.chain_name, Statements(st.current_subpath, Verdict("accept"))) >>,
       !.chain_name = [st.chain_name EXCEPT !.offset = @ + 1],
       !.current_subpath = << >>]

\* the "core:localhost" arm
arm_localhost(st, predicate) ==
    [st EXCEPT
       !.objects = st.objects \o
           << Chain(st.chain_name, "Filter", "Input", "Drop"),
              Rule(st.chain_name, Statements(st.current_subpath, Verdict("accept"))) >>,
       !.chain_name = [st.chain_name EXCEPT !.offset = @ + 1],
       !.current_subpath = << >>,
       !.is_incoming = FALSE]

\* the "core:drop" arm
arm_drop(st, predicate) ==
    LET hook == IF st.is_incoming THEN "Input" ELSE "Output" IN
    [st EXCEPT
       !.objects = st.objects \o
           << Chain(st.chain_name, "Filter", hook, "Accept"),
              Rule(st.chain_name, Statements(st.current_subpath, Verdict("drop"))) >>]

\* the "core:accept" arm choosing its hook by is_incoming, as the drop arm does
arm_accept_by_direction(st, predicate) ==
    LET hook == IF st.is_incoming THEN "Input" ELSE "Output" IN
    [st EXCEPT
       !.objects = st.objects \o
           << Chain(st.chain_name, "Filter", hook, "Accept"),
              Rule(st.chain_name, Statements(st.current_subpath, Verdict("accept"))) >>]

\* the "core:accept" arm
arm_accept(st, predicate) ==
    [st EXCEPT
       !.objects = st.objects \o
           << Chain(st.chain_name, "Filter", "Output", "Accept"),
              Rule(st.chain_name, Statements(st.current_subpath, Verdict("accept"))) >>]

\* the default arm
arm_unknown(st, predicate) == Fail(st, "Unknown node type")

CoreVariants ==
    {"core:source_address_filter", "core:destination_address_filter",
     "core:source_port_filter", "core:destination_port_filter",
     "core:protocol_filter", "core:interface_filter", "core:family_splitter",
     "core:file_ip_list", "core:source_nat", "core:destination_nat",
     "core:source", "core:localhost", "core:drop", "core:accept"}

\* one iteration of the loop over the path: the match on predicate.variant
lower_step(st, predicate) ==
    LET variant == predicate.variant IN
    CASE variant = "core:source_address_filter"      -> arm_source_address_filter(st, predicate)
      [] variant = "core:destination_address_filter" -> arm_destination_address_filter(st, predicate)
      [] variant = "core:source_port_filter"         -> arm_source_port_filter(st, predicate)
      [] variant = "core:destination_port_filter"    -> arm_destination_port_filter(st, predicate)
      [] variant = "core:protocol_filter"            -> arm_protocol_filter(st, predicate)
      [] variant = "core:interface_filter"           -> arm_interface_filter(st, predicate)
      [] variant = "core:family_splitter"            -> arm_family_splitter(st, predicate)
      [] variant = "core:file_ip_list"               -> arm_file_ip_list(st, predicate)
      [] variant = "core:source_nat"                 -> arm_source_nat(st, predicate)
      [] variant = "core:destination_nat"            -> arm_destination_nat(st, predicate)
      [] variant = "core:source"                     -> arm_source(st, predicate)
      [] variant = "core:localhost"                  -> arm_localhost(st, predicate)
      [] variant = "core:drop"                       -> arm_drop(st, predicate)
      [] variant = "core:accept"                     -> arm_accept(st, predicate)
      [] OTHER                                       -> arm_unknown(st, predicate)

RECURSIVE lower_loop(_, _)
\* the loop over the path from the state st on
lower_loop(st, rest) ==
    IF rest = <<>> \/ st.status # "run" THEN st
    ELSE lower_loop(lower_step(st, Head(rest)), Tail(rest))

\* App::evaluate_path: the final loop state; status "run" there is Ok(objects)
evaluate_path(path, order) == lower_loop(lower_init(path, order), path)

-----------------------------------------------------------------------------
(* Export: App::export_configuration from the creation of the memo on.     *)

NoExport == [status |-> "none"]

\* no call of apply_node or node_outputs observed yet
NoCall == [op |-> "none"]

RECURSIVE resolve_all(_, _, _, _)
\* the loop over iter_nodes(): recurse_node_outputs(node_id, &mut db)?
resolve_all(ns, conns, ids, st) ==
    IF ids = <<>> THEN [ok |-> TRUE, st |-> st, err |-> ""]
    ELSE LET r == recurse_node_outputs(ns, conns, Head(ids), st)
         IN  IF r.ok THEN resolve_all(ns, conns, Tail(ids), r.st) ELSE r

\* graph.iter_nodes(): the filled slots in slot order
iter_nodes(ns) == SelectSeq([n \in 1..Len(ns) |-> n], LAMBDA n : ns[n].kind # "none")

\* the "terminal" entries of the nodes with no outputs, flattened
terminal_paths(ns, db) ==
    LET ids == iter_nodes(ns)
    IN  Concat([x \in 1..Len(ids) |->
                  IF /\ NodeOutputs(ns, ids[x]) = <<>>
                     /\ ids[x] \in DOMAIN db
                     /\ "terminal" \in DOMAIN db[ids[x]]
                  THEN db[ids[x]]["terminal"]
                  ELSE << >>])

\* the objects of every path, those of a lowering that returned Err included
lowered_objects_keeps_failed(paths, order) ==
    Concat([x \in 1..Len(paths) |-> evaluate_path(paths[x], order).objects])

\* filter_map(|path| evaluate_path(&path).ok()).flatten(): the objects of the
\* paths whose lowering returned Ok
lowered_objects(paths, order) ==
    Concat([x \in 1..Len(paths) |->
              LET r == evaluate_path(paths[x], order)
              IN  IF r.status = "run" THEN r.objects ELSE << >>])

\* export_configuration gathering the terminal paths through a set keyed by
\* hash: under one enumeration order the first of them is lost
export_configuration_hashed_paths(ns, conns, order) ==
    LET r == resolve_all(ns, conns, iter_nodes(ns), [db |-> << >>, trace |-> << >>])
        all == terminal_paths(ns, r.st.db)
        paths == IF order = "descending" /\ all # << >> THEN Tail(all) ELSE all
    IN  IF ~r.ok
        THEN [status |-> "failed", err |-> r.err, db |-> r.st.db, trace |-> r.st.trace,
              paths |-> << >>, document |-> << >>]
        ELSE IF \E x \in 1..Len(paths) : evaluate_path(paths[x], order).status = "panic"
        THEN [status |-> "crashed", err |-> "", db |-> r.st.db, trace |-> r.st.trace,
              paths |-> paths, document |-> << >>]
        ELSE [status |-> "done", err |-> "", db |-> r.st.db, trace |-> r.st.trace,
              paths |-> paths,
              document |-> << Table >> \o lowered_objects(paths, order)]

\* [status, err, db, trace, paths, document]: status "failed" when the
\* function returns Err, "crashed" when a lowering panics, else "done"
export_configuration(ns, conns, order) ==
    LET r == resolve_all(ns, conns, iter_nodes(ns), [db |-> << >>, trace |-> << >>])
        paths == terminal_paths(ns, r.st.db)
    IN  IF ~r.ok
        THEN [status |-> "failed", err |-> r.err, db |-> r.st.db, trace |-> r.st.trace,
              paths |-> << >>, document |-> << >>]
        ELSE IF \E x \in 1..Len(paths) : evaluate_path(paths[x], order).status = "panic"
        THEN [status |-> "crashed", err |-> "", db |-> r.st.db, trace |-> r.st.trace,
              paths |-> paths, document |-> << >>]
        ELSE [status |-> "done", err |-> "", db |-> r.st.db, trace |-> r.st.trace,
              paths |-> paths,
              document |-> << Table >> \o lowered_objects(paths, order)]

-----------------------------------------------------------------------------
(* The editor: App::new_graph and the events App::update handles.          *)

\* the port directions a node of this kind is built with
FreshInDirs(n, kind) ==
    [p \in {<<n, j>> : j \in 1..Len(build_inputs(kind))} |-> build_inputs(kind)[p[2]].direction]

FreshOutDirs(n, kind) ==
    [p \in {<<n, k>> : k \in 1..Len(build_outputs(kind))} |-> build_outputs(kind)[p[2]].direction]

\* restriction of a function to the keys in S
Restrict(f, S) == [x \in (DOMAIN f) \cap S |-> f[x]]

\* App::new_graph: a Source node, then a Localhost node
new_graph_nodes ==
    << [kind |-> "Source", arg |-> <<>>], [kind |-> "Localhost", arg |-> <<>>] >>

\* the kinds the editor model instantiates: one per port shape of all_kinds
FinderKinds ==
    {"SourceAddressFilter", "SourceNAT", "Drop", "Accept"}

\* last_event: "none", or what the cycle guard said of the last connection
NoEvent == "none"

Init ==
    /\ nodes = new_graph_nodes
    /\ connections = << >>
    /\ in_dir = FreshInDirs(1, "Source") @@ FreshInDirs(2, "Localhost")
    /\ out_dir = FreshOutDirs(1, "Source") @@ FreshOutDirs(2, "Localhost")
    /\ last_event = NoEvent
    /\ export = NoExport
    /\ lpath = << >> /\ pos = 1
    /\ lower = lower_init(<< >>, "ascending")
    /\ this_node_inputs = << >> /\ node_output = NoCall
    /\ compared = NoComparison
    /\ bridge = NoBridge

\* Graph::add_node with a template of the node finder: the node takes a free
\* slot (or a new one) and build_node gives it its ports
AddNode(kind) ==
    /\ \E n \in 1..MaxNodes :
         /\ \/ (n \in DOMAIN nodes /\ nodes[n].kind = "none")
            \/ (n = Len(nodes) + 1 /\ \A m \in DOMAIN nodes : nodes[m].kind # "none")
         /\ nodes' = IF n \in DOMAIN nodes
                     THEN [nodes EXCEPT ![n] = [kind |-> kind, arg |-> TemplateArg(kind)]]
                     ELSE Append(nodes, [kind |-> kind, arg |-> TemplateArg(kind)])
         /\ in_dir' = FreshInDirs(n, kind) @@ in_dir
         /\ out_dir' = FreshOutDirs(n, kind) @@ out_dir
    /\ last_event' = NoEvent
    /\ UNCHANGED <<connections, export, lower_vars, call_vars, compared, bridge>>

\* DeleteNodeFull: allowed by can_delete; the graph drops the node, its ports
\* and every connection from or to it
DeleteNode(n) ==
    /\ n \in NodeIds(nodes)
    /\ can_delete(nodes[n].kind)
    /\ nodes' = [nodes EXCEPT ![n] = NoNode]
    /\ connections' = Restrict(connections,
                          {o \in DOMAIN connections : o[1] # n /\ connections[o][1] # n})
    /\ in_dir' = Restrict(in_dir, {p \in DOMAIN in_dir : p[1] # n})
    /\ out_dir' = Restrict(out_dir, {p \in DOMAIN out_dir : p[1] # n})
    /\ last_event' = NoEvent
    /\ UNCHANGED <<export, lower_vars, call_vars, compared, bridge>>

\* DisconnectEvent: the user pulls a connection off its ports
Disconnect(output_id) ==
    /\ output_id \in DOMAIN connections
    /\ connections' = Restrict(connections, (DOMAIN connections) \ {output_id})
    /\ last_event' = NoEvent
    /\ UNCHANGED <<nodes, in_dir, out_dir, export, lower_vars, call_vars, compared, bridge>>

\* Graph::add_connection: the editor commits the connection before it
\* reports ConnectEventEnded; an output holds one connection
add_connection(conns, output_id, input_id) ==
    (output_id :> input_id) @@ conns

\* connections.remove(output_id)
remove_connection(conns, output_id) ==
    Restrict(conns, (DOMAIN conns) \ {output_id})

\* the ConnectEventEnded arm leaving a rejected connection in the graph
connect_event_ended_keeps_rejected(ns, conns, dirs, input_id, output_id) ==
    LET cycle == break_loops(ns, conns, output_id)
    IN  [connections |-> conns,
         dirs |-> propagate_data_types(ns, conns, dirs, input_id, output_id),
         cycle |-> cycle]

\* App::update, the ConnectEventEnded arm, on the committed connection:
\* the resulting [connections, dirs, cycle]
connect_event_ended(ns, conns, dirs, input_id, output_id) ==
    LET cycle == break_loops(ns, conns, output_id)
        conns1 == IF cycle THEN remove_connection(conns, output_id) ELSE conns
    IN  [connections |-> conns1,
         dirs |-> propagate_data_types(ns, conns1, dirs, input_id, output_id),
         cycle |-> cycle]

\* the types of the ports as the graph holds them: the family they were
\* built with and their current direction
InputType(ns, dirs, input_id) ==
    [family |-> build_inputs(ns[input_id[1]].kind)[input_id[2]].family,
     direction |-> dirs.i[input_id]]

OutputType(ns, dirs, output_id) ==
    [family |-> build_outputs(ns[output_id[1]].kind)[output_id[2]].family,
     direction |-> dirs.o[output_id]]

\* the editor completes a connection only between ports whose types compare
\* equal
can_connect(ns, dirs, input_id, output_id) ==
    data_type_eq(OutputType(ns, dirs, output_id), InputType(ns, dirs, input_id))

ConnectEventEnded(input_id, output_id) ==
    /\ input_id \in InputIds(nodes)
    /\ output_id \in OutputIds(nodes)
    /\ can_connect(nodes, [i |-> in_dir, o |-> out_dir], input_id, output_id)
    /\ \E r \in {connect_event_ended(nodes, add_connection(connections, output_id, input_id),
                                      [i |-> in_dir, o |-> out_dir], input_id, output_id)} :
           /\ connections' = r.connections
           /\ in_dir' = r.dirs.i
           /\ out_dir' = r.dirs.o
           /\ last_event' = IF r.cycle THEN "rejected" ELSE "accepted"
    /\ UNCHANGED <<nodes, export, lower_vars, call_vars, compared, bridge>>

Next ==
    \/ \E kind \in FinderKinds : AddNode(kind)
    \/ \E n \in 1..MaxNodes : DeleteNode(n)
    \/ \E o \in (1..MaxNodes) \X {1, 2} : Disconnect(o)
    \/ \E i \in (1..MaxNodes) \X {1}, o \in (1..MaxNodes) \X {1, 2} : ConnectEventEnded(i, o)

Spec == Init /\ [][Next]_vars

-----------------------------------------------------------------------------
(* Export of a graph: the specification SpecExport.  It starts from any    *)
(* acyclic graph of at most MaxWires connections over the nodes of         *)
(* ExportNodes, or from one of the named graphs, and runs                  *)
(* export_configuration.                                                   *)

\* Number of connections of a generated graph, at most.
MaxWires == 3

\* Source and Localhost, then a filter, a NAT node, an IP list with no file
\* set, and the two terminal nodes
ExportNodes ==
    new_graph_nodes \o
    << [kind |-> "SourceAddressFilter", arg |-> <<"10.0.0.1">>],
       [kind |-> "SourceNAT", arg |-> <<"192.168.1.5:8080">>],
       [kind |-> "FileIpList", arg |-> << >>],
       [kind |-> "Drop", arg |-> << >>],
       [kind |-> "Accept", arg |-> << >>] >>

\* the connection maps of at most MaxWires connections
AllConnections(ns) ==
    UNION { [D -> InputIds(ns)] :
              D \in {S \in SUBSET OutputIds(ns) : Cardinality(S) <= MaxWires} }

\* Source -> SourceAddressFilter("10.0.0.1") -> {match -> Drop, non-match -> Accept},
\* the Drop node created before the Accept node
ScenarioA1 ==
    [nodes |-> new_graph_nodes \o
               << [kind |-> "SourceAddressFilter", arg |-> <<"10.0.0.1">>],
                  [kind |-> "Drop", arg |-> << >>],
                  [kind |-> "Accept", arg |-> << >>] >>,
     connections |-> (<<1, 1>> :> <<3, 1>>) @@ (<<3, 1>> :> <<4, 1>>) @@ (<<3, 2>> :> <<5, 1>>)]

\* the same graph with the Accept node created before the Drop node
ScenarioA2 ==
    [nodes |-> new_graph_nodes \o
               << [kind |-> "SourceAddressFilter", arg |-> <<"10.0.0.1">>],
                  [kind |-> "Accept", arg |-> << >>],
                  [kind |-> "Drop", arg |-> << >>] >>,
     connections |-> (<<1, 1>> :> <<3, 1>>) @@ (<<3, 1>> :> <<5, 1>>) @@ (<<3, 2>> :> <<4, 1>>)]

\* Source -> Localhost -> SourceNAT("192.168.1.5:8080") -> Accept
ScenarioB ==
    [nodes |-> new_graph_nodes \o
               << [kind |-> "SourceNAT", arg |-> <<"192.168.1.5:8080">>],
                  [kind |-> "Accept", arg |-> << >>] >>,
     connections |-> (<<1, 1>> :> <<2, 1>>) @@ (<<2, 1>> :> <<3, 1>>) @@ (<<3, 1>> :> <<4, 1>>)]

\* Source -> FamilySplitter -> {ipv4 -> SourcePortFilter("80") -> {match -> Drop,
\* non-match -> Accept}, ipv6 -> Drop}
SplitterGraph ==
    [nodes |-> new_graph_nodes \o
               << [kind |-> "FamilySplitter", arg |-> << >>],
                  [kind |-> "SourcePortFilter", arg |-> <<"80">>],
                  [kind |-> "Drop", arg |-> << >>],
                  [kind |-> "Accept", arg |-> << >>] >>,
     connections |-> (<<1, 1>> :> <<3, 1>>) @@ (<<3, 1>> :> <<4, 1>>) @@ (<<3, 2>> :> <<5, 1>>)
                     @@ (<<4, 1>> :> <<5, 1>>) @@ (<<4, 2>> :> <<6, 1>>)]

\* Source -> SourceAddressFilter("10.0.0.1") -> {match -> FileIpList(None),
\* non-match -> Drop}: the IP list has no file set
UnsetListGraph ==
    [nodes |-> new_graph_nodes \o
               << [kind |-> "SourceAddressFilter", arg |-> <<"10.0.0.1">>],
                  [kind |-> "FileIpList", arg |-> << >>],
                  [kind |-> "Drop", arg |-> << >>] >>,
     connections |-> (<<1, 1>> :> <<3, 1>>) @@ (<<3, 1>> :> <<4, 1>>) @@ (<<3, 2>> :> <<5, 1>>)]

\* Source -> SourceAddressFilter("10.0.0.1") with both outputs wired to Drop
DoubleWireGraph ==
    [nodes |-> new_graph_nodes \o
               << [kind |-> "SourceAddressFilter", arg |-> <<"10.0.0.1">>],
                  [kind |-> "Drop", arg |-> << >>] >>,
     connections |-> (<<1, 1>> :> <<3, 1>>) @@ (<<3, 1>> :> <<4, 1>>) @@ (<<3, 2>> :> <<4, 1>>)]

\* Source -> SourceAddressFilter("10.0.0.1") -> {match -> FileIpList(Some(file))
\* -> {match -> Drop}, non-match -> Drop}: the IP list has its file set
ListGraph ==
    [nodes |-> new_graph_nodes \o
               << [kind |-> "SourceAddressFilter", arg |-> <<"10.0.0.1">>],
                  [kind |-> "FileIpList", arg |-> <<"/etc/blocklist">>],
                  [kind |-> "Drop", arg |-> << >>] >>,
     connections |-> (<<1, 1>> :> <<3, 1>>) @@ (<<3, 1>> :> <<4, 1>>) @@ (<<3, 2>> :> <<5, 1>>)
                     @@ (<<4, 1>> :> <<5, 1>>)]

\* Source -> SourceAddressFilter("10.0.0.1") -> {match -> SourceNAT("192.168.1.5")
\* -> Accept, non-match -> Drop}: the NAT target names no port
PortlessNatGraph ==
    [nodes |-> new_graph_nodes \o
               << [kind |-> "SourceAddressFilter", arg |-> <<"10.0.0.1">>],
                  [kind |-> "SourceNAT", arg |-> <<"192.168.1.5">>],
                  [kind |-> "Accept", arg |-> << >>],
                  [kind |-> "Drop", arg |-> << >>] >>,
     connections |-> (<<1, 1>> :> <<3, 1>>) @@ (<<3, 1>> :> <<4, 1>>) @@ (<<3, 2>> :> <<6, 1>>)
                     @@ (<<4, 1>> :> <<5, 1>>)]

\* Source -> SourceNAT("192.168.1.5:8080") -> SourceNAT("192.168.1.5") -> Drop:
\* the lowering of the one terminal path fails at the second NAT, after the
\* first has flushed a chain and a rule
FailedNatGraph ==
    [nodes |-> new_graph_nodes \o
               << [kind |-> "SourceNAT", arg |-> <<"192.168.1.5:8080">>],
                  [kind |-> "SourceNAT", arg |-> <<"192.168.1.5">>],
                  [kind |-> "Drop", arg |-> << >>] >>,
     connections |-> (<<1, 1>> :> <<3, 1>>) @@ (<<3, 1>> :> <<4, 1>>) @@ (<<4, 1>> :> <<5, 1>>)]

NamedGraphs ==
    {ScenarioA1, ScenarioA2, ScenarioB, SplitterGraph, UnsetListGraph, DoubleWireGraph,
     ListGraph, PortlessNatGraph, FailedNatGraph}

AllFreshInDirs(ns) ==
    [p \in InputIds(ns) |-> build_inputs(ns[p[1]].kind)[p[2]].direction]

AllFreshOutDirs(ns) ==
    [p \in OutputIds(ns) |-> build_outputs(ns[p[1]].kind)[p[2]].direction]

InitExport ==
    /\ \/ /\ nodes = ExportNodes
          /\ connections \in AllConnections(nodes)
          /\ Acyclic(nodes, connections)
       \/ \E g \in NamedGraphs : nodes = g.nodes /\ connections = g.connections
    /\ in_dir = AllFreshInDirs(nodes)
    /\ out_dir = AllFreshOutDirs(nodes)
    /\ last_event = NoEvent
    /\ export = NoExport
    /\ lpath = << >> /\ pos = 1
    /\ lower = lower_init(<< >>, "ascending")
    /\ this_node_inputs = << >> /\ node_output = NoCall
    /\ compared = NoComparison
    /\ bridge = NoBridge

\* the "Export configuration" button, past the folder dialog
ExportConfiguration(order) ==
    /\ export.status = "none"
    /\ export' = export_configuration(nodes, connections, order)
    /\ UNCHANGED <<graph_vars, last_event, lower_vars, call_vars, compared, bridge>>

NextExport == \E order \in HashOrders : ExportConfiguration(order)

SpecExport == InitExport /\ [][NextExport]_vars

-----------------------------------------------------------------------------
(* Lowering of one path: the specification SpecLower.  It starts from a    *)
(* complete path, as the collector builds them with apply_node from Source *)
(* through at most MaxPathLen - 2 inner nodes to a terminal node, and runs *)
(* the loop of evaluate_path one predicate per step.                       *)

\* Length of the longest path lowered, Source and the terminal node included.
MaxPathLen == 4

FilterValues == {"80", "match"}

InnerNodes ==
    { [kind |-> k, arg |-> <<v>>] : k \in FilterKinds, v \in FilterValues } \cup
    { [kind |-> k, arg |-> <<a>>] : k \in NatKinds, a \in AddrValues } \cup
    { [kind |-> "FileIpList", arg |-> <<"/etc/blocklist">>],
      [kind |-> "FamilySplitter", arg |-> << >>],
      [kind |-> "Localhost", arg |-> << >>] }

TerminalNodes == { [kind |-> "Drop", arg |-> << >>], [kind |-> "Accept", arg |-> << >>] }

\* the predicate a node appends on one of its branches
PredicatesOf(node_data) ==
    { Last(apply_node(<< >>, node_data, branch_names(node_data.kind)[k]).val) :
        k \in 1..Len(branch_names(node_data.kind)) }

\* a predicate no arm of evaluate_path knows: what a custom node may append
ForeignPredicate == Predicate("jool:siit", EmptyParams)

InnerPredicates == UNION { PredicatesOf(n) : n \in InnerNodes } \cup { ForeignPredicate }

TerminalPredicates == UNION { PredicatesOf(n) : n \in TerminalNodes }

SourcePredicate == Predicate("core:source", EmptyParams)

LowerPaths ==
    { << SourcePredicate >> \o inner \o << t >> :
        inner \in { q \in UNION { [1..k -> InnerPredicates] : k \in 0..(MaxPathLen - 2) } :
                      Cardinality({x \in DOMAIN q : q[x].variant = "core:localhost"}) <= 1 },
        t \in TerminalPredicates }

InitLower ==
    /\ nodes = new_graph_nodes
    /\ connections = << >>
    /\ in_dir = AllFreshInDirs(nodes)
    /\ out_dir = AllFreshOutDirs(nodes)
    /\ last_event = NoEvent
    /\ export = NoExport
    /\ lpath \in LowerPaths
    /\ pos = 1
    /\ \E order \in HashOrders : lower = lower_init(lpath, order)
    /\ this_node_inputs = << >> /\ node_output = NoCall
    /\ compared = NoComparison
    /\ bridge = NoBridge

\* one iteration of the loop over the path
LowerIteration ==
    /\ lower.status = "run"
    /\ lower' = lower_step(lower, lpath[pos])
    /\ pos' = pos + 1
    /\ UNCHANGED <<graph_vars, last_event, export, lpath, call_vars, compared, bridge>>

SourceAddressFilterArm ==
    /\ pos <= Len(lpath)
    /\ lpath[pos].variant = "core:source_address_filter"
    /\ LowerIteration

DestinationAddressFilterArm ==
    /\ pos <= Len(lpath)
    /\ lpath[pos].variant = "core:destination_address_filter"
    /\ LowerIteration

SourcePortFilterArm ==
    /\ pos <= Len(lpath)
    /\ lpath[pos].variant = "core:source_port_filter"
    /\ LowerIteration

DestinationPortFilterArm ==
    /\ pos <= Len(lpath)
    /\ lpath[pos].variant = "core:destination_port_filter"
    /\ LowerIteration

ProtocolFilterArm ==
    /\ pos <= Len(lpath)
    /\ lpath[pos].variant = "core:protocol_filter"
    /\ LowerIteration

InterfaceFilterArm ==
    /\ pos <= Len(lpath)
    /\ lpath[pos].variant = "core:interface_filter"
    /\ LowerIteration

FamilySplitterArm ==
    /\ pos <= Len(lpath)
    /\ lpath[pos].variant = "core:family_splitter"
    /\ LowerIteration

FileIpListArm ==
    /\ pos <= Len(lpath)
    /\ lpath[pos].variant = "core:file_ip_list"
    /\ LowerIteration

SourceNatArm ==
    /\ pos <= Len(lpath)
    /\ lpath[pos].variant = "core:source_nat"
    /\ LowerIteration

DestinationNatArm ==
    /\ pos <= Len(lpath)
    /\ lpath[pos].variant = "core:destination_nat"
    /\ LowerIteration

SourceArm ==
    /\ pos <= Len(lpath)
    /\ lpath[pos].variant = "core:source"
    /\ LowerIteration

LocalhostArm ==
    /\ pos <= Len(lpath)
    /\ lpath[pos].variant = "core:localhost"
    /\ LowerIteration

DropArm ==
    /\ pos <= Len(lpath)
    /\ lpath[pos].variant = "core:drop"
    /\ LowerIteration

AcceptArm ==
    /\ pos <= Len(lpath)
    /\ lpath[pos].variant = "core:accept"
    /\ LowerIteration

UnknownArm ==
    /\ pos <= Len(lpath)
    /\ lpath[pos].variant \notin CoreVariants
    /\ LowerIteration

\* the loop is over: Ok(objects)
LowerReturn ==
    /\ lower.status = "run"
    /\ pos = Len(lpath) + 1
    /\ lower' = [lower EXCEPT !.status = "ok"]
    /\ UNCHANGED <<graph_vars, last_event, export, lpath, pos, call_vars, compared, bridge>>

NextLower ==
    \/ SourceAddressFilterArm \/ DestinationAddressFilterArm
    \/ SourcePortFilterArm \/ DestinationPortFilterArm
    \/ ProtocolFilterArm \/ InterfaceFilterArm
    \/ FamilySplitterArm \/ FileIpListArm
    \/ SourceNatArm \/ DestinationNatArm
    \/ SourceArm \/ LocalhostArm \/ DropArm \/ AcceptArm
    \/ UnknownArm \/ LowerReturn

SpecLower == InitLower /\ [][NextLower]_vars

-----------------------------------------------------------------------------
(* One node: the specification SpecNode.  The graph holds Source,          *)
(* Localhost and one more node of any built-in kind; apply_node and        *)
(* node_outputs are called once on up to MaxInputs incoming paths.         *)

\* Number of incoming paths node_outputs is called with, at most.
MaxInputs == 2

NodeChoices ==
    { [kind |-> k, arg |-> <<"10.0.0.1">>] : k \in FilterKinds } \cup
    { [kind |-> k, arg |-> <<"192.168.1.5:8080">>] : k \in NatKinds } \cup
    { [kind |-> "FileIpList", arg |-> << >>],
      [kind |-> "FileIpList", arg |-> <<"/etc/blocklist">>],
      [kind |-> "FamilySplitter", arg |-> << >>],
      [kind |-> "Drop", arg |-> << >>],
      [kind |-> "Accept", arg |-> << >>] }

\* incoming paths: none yet, the path of Source, the path of Source -> Localhost
IncomingPaths ==
    { << >>,
      << Predicate("core:source", EmptyParams) >>,
      << Predicate("core:source", EmptyParams), Predicate("core:localhost", EmptyParams) >> }

\* the output names of the built-in nodes, "terminal", and a name no node has
OutputNames ==
    {"incoming", "outgoing", "match", "non-match", "ipv4", "ipv6", "", "terminal", "bogus"}

InitNode ==
    /\ \E node_data \in NodeChoices : nodes = new_graph_nodes \o << node_data >>
    /\ connections = << >>
    /\ in_dir = AllFreshInDirs(nodes)
    /\ out_dir = AllFreshOutDirs(nodes)
    /\ last_event = NoEvent
    /\ export = NoExport
    /\ lpath = << >> /\ pos = 1
    /\ lower = lower_init(<< >>, "ascending")
    /\ this_node_inputs \in UNION { [1..n -> IncomingPaths] : n \in 0..MaxInputs }
    /\ node_output = NoCall
    /\ compared = NoComparison
    /\ bridge = NoBridge

\* one call apply_node(&node_inputs[j], &nodes[node_id].user_data, output_name)
ApplyNode(j, node_id, output_name) ==
    /\ node_output = NoCall
    /\ j \in 1..Len(this_node_inputs)
    /\ node_id \in NodeIds(nodes)
    /\ node_output' = [op |-> "apply_node", input |-> this_node_inputs[j],
                       node_id |-> node_id, output_name |-> output_name,
                       r |-> apply_node(this_node_inputs[j], nodes[node_id], output_name)]
    /\ UNCHANGED <<graph_vars, last_event, export, lower_vars, this_node_inputs, compared, bridge>>

\* one call node_outputs(&node_inputs, node_id); node_id may be a stale id
NodeOutputsCall(node_id) ==
    /\ node_output = NoCall
    /\ node_output' = [op |-> "node_outputs", node_id |-> node_id,
                       r |-> node_outputs(nodes, this_node_inputs, node_id)]
    /\ UNCHANGED <<graph_vars, last_event, export, lower_vars, this_node_inputs, compared, bridge>>

NextNode ==
    \/ \E j \in 1..MaxInputs, node_id \in 1..3, output_name \in OutputNames :
          ApplyNode(j, node_id, output_name)
    \/ \E node_id \in 1..4 : NodeOutputsCall(node_id)

SpecNode == InitNode /\ [][NextNode]_vars

-----------------------------------------------------------------------------
(* C1: starting from the acyclic graph of new_graph, after any sequence of *)
(* connection-completed events (each committed, vetted by break_loops and  *)
(* removed when it reports a cycle), of node additions, deletions and      *)
(* disconnections, no node feeds itself through one or more connections:   *)
(* a connection that closes a cycle, a self-loop included, is absent after *)
(* the event that made it.                                                 *)
C1_Acyclic == Acyclic(nodes, connections)

\* the cycle guard has just rejected a connection, and a longer chain exists
C1_Witness ==
    /\ last_event = "rejected"
    /\ \E n, m \in NodeIds(nodes) : n # m /\ Feeds(nodes, connections, n, m)
                                     /\ \E k \in NodeIds(nodes) : Feeds(nodes, connections, m, k)

-----------------------------------------------------------------------------
(* Routes and documents, for the statements about export below *)

\* the document is a Table and then n chain/rule pairs
PairsAfterTable(document, n) ==
    /\ Len(document) = 1 + 2 * n
    /\ document[1] = Table
    /\ \A k \in 1..n : /\ document[2 * k].obj = "chain"
                       /\ document[2 * k + 1].obj = "rule"
                       /\ document[2 * k + 1].chain = document[2 * k].name

\* the k-th pair of the document: a chain of this type and hook whose rule
\* has this expr
IsPair(document, k, type, hook, expr) ==
    /\ document[2 * k].type = type
    /\ document[2 * k].hook = hook
    /\ document[2 * k + 1].expr = expr

\* Source -> SourceAddressFilter("10.0.0.1") -> {match -> Drop, non-match -> Accept}
\* and the Localhost node of every graph, unconnected
IsScenarioA(ns, conns) ==
    \E f, d, a \in NodeIds(ns) :
       /\ ns[1].kind = "Source" /\ ns[2].kind = "Localhost"
       /\ ns[f] = [kind |-> "SourceAddressFilter", arg |-> <<"10.0.0.1">>]
       /\ ns[d].kind = "Drop"
       /\ ns[a].kind = "Accept"
       /\ NodeIds(ns) = {1, 2, f, d, a}
       /\ conns = (<<1, 1>> :> <<f, 1>>) @@ (<<f, 1>> :> <<d, 1>>) @@ (<<f, 2>> :> <<a, 1>>)

\* Source -> Localhost -> SourceNAT("192.168.1.5:8080") -> Accept
IsScenarioB(ns, conns) ==
    \E t, a \in NodeIds(ns) :
       /\ ns[1].kind = "Source" /\ ns[2].kind = "Localhost"
       /\ ns[t] = [kind |-> "SourceNAT", arg |-> <<"192.168.1.5:8080">>]
       /\ ns[a].kind = "Accept"
       /\ NodeIds(ns) = {1, 2, t, a}
       /\ conns = (<<1, 1>> :> <<2, 1>>) @@ (<<2, 1>> :> <<t, 1>>) @@ (<<t, 1>> :> <<a, 1>>)

RECURSIVE RoutesFrom(_, _, _)
\* the routes from node n on: sequences of steps [node, branch] that follow
\* connections and end at a node with no output ports, whose branch is
\* "terminal"
RoutesFrom(ns, conns, n) ==
    IF NodeOutputs(ns, n) = << >>
    THEN { << [node |-> n, branch |-> "terminal"] >> }
    ELSE UNION { { << [node |-> n, branch |-> OutputName(ns, o)] >> \o rest :
                     rest \in RoutesFrom(ns, conns, conns[o][1]) } :
                 o \in { <<n, k>> : k \in 1..Len(NodeOutputs(ns, n)) } \cap DOMAIN conns }

\* the complete routes of the graph: those that start at a Source node
Routes(ns, conns) ==
    UNION { RoutesFrom(ns, conns, n) : n \in {m \in NodeIds(ns) : ns[m].kind = "Source"} }

RECURSIVE RoutePath(_, _, _)
\* the predicates of the nodes of a route, in order, each with the branch the
\* route leaves the node through: Ok(path), or Err when a node yields none
RoutePath(ns, route, input) ==
    IF route = << >> THEN Ok(input)
    ELSE LET r == apply_node(input, ns[Head(route).node], Head(route).branch)
         IN  IF r.ok THEN RoutePath(ns, Tail(route), r.val) ELSE r

\* how many times e occurs in the sequence
Count(seq, e) == Cardinality({x \in DOMAIN seq : seq[x] = e})

\* the two sequences hold the same elements the same number of times
SameBag(s1, s2) ==
    /\ Len(s1) = Len(s2)
    /\ \A x \in DOMAIN s1 : Count(s1, s1[x]) = Count(s2, s1[x])

\* the concatenation, over the connections that end at the first input port
\* of node n, of the paths memoized for the output branch of the connection
IncomingByConnection(ns, conns, db, n) ==
    LET outs == SetToSeq({o \in DOMAIN conns : conns[o] = NodeInputs(ns, n)[1]})
    IN  Concat([x \in 1..Len(outs) |->
                  IF outs[x][1] \in DOMAIN db
                  THEN db[outs[x][1]][OutputName(ns, outs[x])]
                  ELSE << >>])

-----------------------------------------------------------------------------
(* C2: Scenario A.  When the graph Source -> SourceAddressFilter           *)
(* ("10.0.0.1") -> {match -> Drop, non-match -> Accept} is exported, the   *)
(* export completes and the document is one Table followed by exactly two  *)
(* chain/rule pairs, in one order or the other: a Filter chain on hook     *)
(* Input with the rule [saddr == 10.0.0.1, drop], and a Filter chain on    *)
(* hook Output with the rule [saddr != 10.0.0.1, accept].                  *)
C2_ScenarioA ==
    (export.status # "none" /\ IsScenarioA(nodes, connections)) =>
        /\ export.status = "done"
        /\ PairsAfterTable(export.document, 2)
        /\ \E x, y \in {1, 2} :
              /\ x # y
              /\ IsPair(export.document, x, "Filter", "Input",
                        << Match("saddr", "10.0.0.1", "=="), Verdict("drop") >>)
              /\ IsPair(export.document, y, "Filter", "Output",
                        << Match("saddr", "10.0.0.1", "!="), Verdict("accept") >>)

\* Scenario A has been exported; the Accept node was created before the Drop
\* node, so the Output chain comes first
C2_Witness ==
    /\ export.status = "done"
    /\ IsScenarioA(nodes, connections)
    /\ export.document[2].hook = "Output"

-----------------------------------------------------------------------------
(* C3: Scenario B.  When the graph Source -> Localhost -> SourceNAT        *)
(* ("192.168.1.5:8080") -> Accept is exported, the document is, in order:  *)
(* the Table; a Filter/Input chain with policy Drop whose rule is an       *)
(* unconditional accept; a NAT chain on hook Output whose rule performs    *)
(* SNAT to address 192.168.1.5, port 8080; a Filter/Output chain whose     *)
(* rule is [saddr == 192.168.1.5, accept], the address without the port.   *)
C3_ScenarioB ==
    (export.status # "none" /\ IsScenarioB(nodes, connections)) =>
        /\ export.status = "done"
        /\ PairsAfterTable(export.document, 3)
        /\ IsPair(export.document, 1, "Filter", "Input", << Verdict("accept") >>)
        /\ export.document[2].policy = "Drop"
        /\ export.document[4].type = "NAT"
        /\ export.document[4].hook = "Output"
        /\ Len(export.document[5].expr) = 1
        /\ export.document[5].expr[1].stmt = "snat"
        /\ export.document[5].expr[1].addr = "192.168.1.5"
        /\ export.document[5].expr[1].port = 8080
        /\ IsPair(export.document, 3, "Filter", "Output",
                  << Match("saddr", "192.168.1.5", "=="), Verdict("accept") >>)

-----------------------------------------------------------------------------
(* C4: after an export of an acyclic graph of built-in nodes, for every    *)
(* route from Source along connections to a node with no output ports,     *)
(* the collected terminal paths contain the path made of the predicates of *)
(* the nodes of the route in order, each filter or splitter predicate      *)
(* carrying the name of the output port the route leaves its node through. *)
C4_EveryRouteCollected ==
    export.status # "none" =>
        \A route \in Routes(nodes, connections) :
           LET path == RoutePath(nodes, route, << >>)
           IN  path.ok => \E x \in 1..Len(export.paths) : export.paths[x] = path.val

-----------------------------------------------------------------------------
(* C5: after an export, every node that has input ports was evaluated on   *)
(* the concatenation, over the connections that end at its first input     *)
(* port, of the paths memoized for the branch of that connection, each     *)
(* connection counted once, also when two outputs of one sender end at the *)
(* same input; and the number of terminal paths is the number of routes    *)
(* from Source to a terminal node.                                         *)
C5_OncePerConnection ==
    export.status = "done" =>
        /\ \A n \in DOMAIN export.db :
              NodeInputs(nodes, n) # << >> =>
                 LET incoming == IncomingByConnection(nodes, connections, export.db, n)
                 IN  \A name \in DOMAIN export.db[n] :
                        SameBag(export.db[n][name],
                                [j \in 1..Len(incoming) |->
                                    apply_node(incoming[j], nodes[n], name).val])
        /\ Len(export.paths) = Cardinality(Routes(nodes, connections))

-----------------------------------------------------------------------------
(* C6: a call of node_outputs with N incoming paths on a node with K       *)
(* output ports returns exactly K entries, one per output-port name, of N  *)
(* paths each, the j-th path of a branch being apply_node(j-th incoming    *)
(* path, node, branch); a node with no output ports returns exactly one    *)
(* entry, keyed "terminal", of N paths (the empty list when N = 0).  The   *)
(* call returns the failure of apply_node instead exactly when apply_node  *)
(* fails on one of the K x N pairs.                                        *)
C6_CrossProduct ==
    (node_output.op = "node_outputs" /\ node_output.node_id \in NodeIds(nodes)) =>
        LET node_data == nodes[node_output.node_id]
            outs == build_outputs(node_data.kind)
            names == IF outs = << >> THEN {"terminal"}
                     ELSE {outs[k].name : k \in 1..Len(outs)}
            N == Len(this_node_inputs)
            r == node_output.r
        IN  /\ r.ok <=> \A name \in names, j \in 1..N :
                           apply_node(this_node_inputs[j], node_data, name).ok
            /\ r.ok =>
                 /\ DOMAIN r.val = names
                 /\ Cardinality(DOMAIN r.val) = IF outs = << >> THEN 1 ELSE Len(outs)
                 /\ \A name \in names :
                       /\ Len(r.val[name]) = N
                       /\ \A j \in 1..N :
                             r.val[name][j] =
                                 apply_node(this_node_inputs[j], node_data, name).val

\* node_outputs has returned two entries of two paths each for a filter node
C6_Witness ==
    /\ node_output.op = "node_outputs"
    /\ node_output.node_id \in NodeIds(nodes)
    /\ nodes[node_output.node_id].kind \in FilterKinds
    /\ node_output.r.ok
    /\ DOMAIN node_output.r.val = {"match", "non-match"}
    /\ Len(this_node_inputs) = 2
    /\ Len(node_output.r.val["non-match"]) = 2

-----------------------------------------------------------------------------
(* C7: when apply_node succeeds on a node that is not Source, the path it  *)
(* returns is one predicate longer than the incoming path and starts with  *)
(* the incoming path unchanged; on Source it returns the path of length 1  *)
(* that holds the source predicate, whatever the incoming path is.         *)
C7_AppendOnly ==
    (node_output.op = "apply_node" /\ node_output.r.ok) =>
        LET input == node_output.input
            out == node_output.r.val
        IN  IF nodes[node_output.node_id].kind = "Source"
            THEN /\ Len(out) = 1
                 /\ out[1].variant = "core:source"
            ELSE /\ Len(out) = Len(input) + 1
                 /\ SubSeq(out, 1, Len(input)) = input

\* apply_node has appended to an incoming path of two predicates
C7_Witness ==
    /\ node_output.op = "apply_node"
    /\ node_output.r.ok
    /\ nodes[node_output.node_id].kind \in {"Localhost", "Accept", "Drop"}
    /\ Len(node_output.input) = 2
    /\ Len(node_output.r.val) = 3

-----------------------------------------------------------------------------
(* Reading a path being lowered, for the statements about lowering below *)

FilterVariants ==
    {"core:source_address_filter", "core:destination_address_filter",
     "core:source_port_filter", "core:destination_port_filter",
     "core:protocol_filter", "core:interface_filter"}

NatVariants == {"core:source_nat", "core:destination_nat"}

\* the predicates whose arm emits a chain and a rule
FlushVariants == NatVariants \cup {"core:localhost", "core:drop", "core:accept"}

\* the predicates whose arm buffers a match
MatchVariants == FilterVariants \cup {"core:family_splitter"}

\* a localhost predicate occurs in the path before position x
LocalhostBefore(path, x) == \E y \in 1..(x - 1) : path[y].variant = "core:localhost"

\* the positions of the path that hold a predicate of one of the variants,
\* in increasing order
PositionsOf(path, variants) ==
    SelectSeq([x \in 1..Len(path) |-> x], LAMBDA x : path[x].variant \in variants)

\* the packet field a buffering predicate at position x matches on
FieldOf(path, x) ==
    LET variant == path[x].variant IN
    CASE variant = "core:source_address_filter"      -> "saddr"
      [] variant = "core:destination_address_filter" -> "daddr"
      [] variant = "core:source_port_filter"         -> "meta l4proto { tcp, udp } th sport"
      [] variant = "core:destination_port_filter"    -> "meta l4proto { tcp, udp } th dport"
      [] variant = "core:protocol_filter"            -> "ip protocol"
      [] variant = "core:interface_filter"           ->
             IF LocalhostBefore(path, x) THEN "oifname" ELSE "iifname"
      [] variant = "core:family_splitter"            -> "nfproto"

\* the value a buffering predicate matches against
ValueOf(predicate) ==
    IF predicate.variant = "core:family_splitter" THEN predicate.params["family"]
    ELSE predicate.params["filter"]

\* the statement that ends the rule of a flushing predicate
ActionOf(variant) ==
    CASE variant = "core:source_nat"      -> "snat"
      [] variant = "core:destination_nat" -> "dnat"
      [] variant = "core:localhost"       -> "accept"
      [] variant = "core:drop"            -> "drop"
      [] variant = "core:accept"          -> "accept"

\* the field of the match a NAT arm seeds the buffer with
SeedFieldOf(variant) == IF variant = "core:source_nat" THEN "saddr" ELSE "daddr"

-----------------------------------------------------------------------------
(* C8: when the arm of one of the six filter predicates has run, the match *)
(* it appended to the buffer is on the predicate's packet field, against   *)
(* the configured filter value, with the operator == if the predicate's    *)
(* rule parameter is "match" and != otherwise.                             *)
C8_FilterOperator ==
    (/\ pos > 1
     /\ lower.status = "run"
     /\ lpath[pos - 1].variant \in FilterVariants) =>
        /\ lower.current_subpath # << >>
        /\ Last(lower.current_subpath) =
              Match(FieldOf(lpath, pos - 1),
                    lpath[pos - 1].params["filter"],
                    IF lpath[pos - 1].params["rule"] = "match" THEN "==" ELSE "!=")

-----------------------------------------------------------------------------
(* C9: every chain emitted while a path is lowered has the attributes      *)
(* fixed by the predicate that flushed it.  A source or destination NAT    *)
(* predicate gives type NAT, policy Accept, hook Input if no localhost     *)
(* predicate precedes it in the path and Output otherwise; localhost gives *)
(* type Filter, hook Input, policy Drop; drop gives type Filter, policy    *)
(* Accept, hook Input if no localhost predicate precedes it and Output     *)
(* otherwise; accept gives type Filter, hook Output, policy Accept.        *)
C9_ChainAttributes ==
    \A k \in 1..(Len(lower.objects) \div 2) :
       LET chain == lower.objects[2 * k - 1]
           x == PositionsOf(lpath, FlushVariants)[k]
           variant == lpath[x].variant
           by_direction == IF LocalhostBefore(lpath, x) THEN "Output" ELSE "Input"
       IN  /\ chain.obj = "chain"
           /\ x < pos
           /\ variant \in NatVariants =>
                 chain.type = "NAT" /\ chain.policy = "Accept" /\ chain.hook = by_direction
           /\ variant = "core:localhost" =>
                 chain.type = "Filter" /\ chain.hook = "Input" /\ chain.policy = "Drop"
           /\ variant = "core:drop" =>
                 chain.type = "Filter" /\ chain.policy = "Accept" /\ chain.hook = by_direction
           /\ variant = "core:accept" =>
                 chain.type = "Filter" /\ chain.hook = "Output" /\ chain.policy = "Accept"

\* a path Source -> Localhost -> NAT -> Drop has been lowered: three chains,
\* the last two on hook Output
C9_Witness ==
    /\ lower.status = "ok"
    /\ Len(lower.objects) = 6
    /\ lower.objects[1].policy = "Drop"
    /\ lower.objects[3].type = "NAT"
    /\ lower.objects[3].hook = "Output"
    /\ lpath[4].variant = "core:drop"
    /\ lower.objects[5].hook = "Output"

-----------------------------------------------------------------------------
(* C10: each rule emitted by a flush (NAT, localhost, drop, accept) holds  *)
(* exactly the matches buffered since the previous flush, in path order    *)
(* (after a NAT flush, first the one match that flush seeded), followed by *)
(* one action statement; right after a localhost flush the buffer is       *)
(* empty, and right after a NAT flush it holds exactly one match, on saddr *)
(* for source NAT and on daddr for destination NAT.                        *)
C10_RulePerFlush ==
    /\ \A k \in 1..(Len(lower.objects) \div 2) :
          LET expr == lower.objects[2 * k].expr
              flushes == PositionsOf(lpath, FlushVariants)
              x == flushes[k]
              prev == IF k = 1 THEN 0 ELSE flushes[k - 1]
              seeded == IF prev > 0 /\ lpath[prev].variant \in NatVariants THEN 1 ELSE 0
              buffered == SelectSeq(PositionsOf(lpath, MatchVariants),
                                    LAMBDA y : prev < y /\ y < x)
          IN  /\ lower.objects[2 * k].obj = "rule"
              /\ Len(expr) = seeded + Len(buffered) + 1
              /\ seeded = 1 =>
                    /\ expr[1].stmt = "match"
                    /\ expr[1].left = SeedFieldOf(lpath[prev].variant)
              /\ \A i \in 1..Len(buffered) :
                    /\ expr[seeded + i].stmt = "match"
                    /\ expr[seeded + i].left = FieldOf(lpath, buffered[i])
                    /\ expr[seeded + i].right = ValueOf(lpath[buffered[i]])
              /\ expr[Len(expr)].stmt = ActionOf(lpath[x].variant)
    /\ (pos > 1 /\ lower.status = "run" /\ lpath[pos - 1].variant = "core:localhost") =>
          lower.current_subpath = << >>
    /\ (pos > 1 /\ lower.status = "run" /\ lpath[pos - 1].variant \in NatVariants) =>
          /\ Len(lower.current_subpath) = 1
          /\ lower.current_subpath[1].stmt = "match"
          /\ lower.current_subpath[1].left = SeedFieldOf(lpath[pos - 1].variant)

\* a path Source -> filter -> NAT -> Accept has been lowered: the NAT rule
\* holds the filter's match and the NAT action, the accept rule the seeded
\* match and the verdict
C10_Witness ==
    /\ lower.status = "ok"
    /\ Len(lower.objects) = 4
    /\ lpath[2].variant \in FilterVariants
    /\ lpath[3].variant \in NatVariants
    /\ Len(lower.objects[2].expr) = 2
    /\ Len(lower.objects[4].expr) = 2
    /\ lower.objects[4].expr[1].left \in {"saddr", "daddr"}

-----------------------------------------------------------------------------
(* Failing nodes, for the statements about failures during export below *)

\* the Source nodes of the graph
SourceNodes(ns) == {n \in NodeIds(ns) : ns[n].kind = "Source"}

\* the nodes whose evaluation fails during export: an IP list with no file
\* set that has at least one incoming path (it is fed, directly or through
\* other nodes, by Source)
FailingNodes(ns, conns) ==
    {n \in NodeIds(ns) :
        /\ ns[n] = [kind |-> "FileIpList", arg |-> << >>]
        /\ \E src \in SourceNodes(ns) : ReachesPlus(ns, conns, src, n)}

\* the nodes a route passes through
RouteNodes(route) == {route[x].node : x \in DOMAIN route}

\* every element of the sequence part occurs in the sequence whole
Within(part, whole) == \A x \in DOMAIN part : \E y \in DOMAIN whole : whole[y] = part[x]

-----------------------------------------------------------------------------
(* C11: when a node fails during export (an IP list with no file set that  *)
(* has at least one incoming path), the export still completes, and the    *)
(* document holds the objects lowered from every terminal path that does   *)
(* not pass through the failing node.                                      *)
C11_FailureIsolated ==
    (export.status # "none" /\ FailingNodes(nodes, connections) # {}) =>
        /\ export.status = "done"
        /\ \A route \in Routes(nodes, connections) :
              RouteNodes(route) \cap FailingNodes(nodes, connections) = {} =>
                 LET path == RoutePath(nodes, route, << >>).val
                 IN  evaluate_path(path, "ascending").status = "run" =>
                        \E order \in HashOrders :
                           Within(evaluate_path(path, order).objects, export.document)

-----------------------------------------------------------------------------
(* C12: once the terminal paths are collected, export lowers each of them  *)
(* on its own: it does not abort when the lowering of a path fails, a path *)
(* whose lowering fails contributes no objects, and the document is the    *)
(* Table followed by the chain and rule objects of the other paths, in the *)
(* order of the paths.                                                     *)
C12_PathsLoweredIndependently ==
    export.status \in {"done", "crashed"} =>
        /\ export.status = "done"
        /\ \E order \in HashOrders :
              export.document =
                 << Table >> \o
                 Concat([x \in 1..Len(export.paths) |->
                           IF evaluate_path(export.paths[x], order).status = "run"
                           THEN evaluate_path(export.paths[x], order).objects
                           ELSE << >>])

-----------------------------------------------------------------------------
(* C13: lowering a path that holds a file-based IP-list predicate, or a    *)
(* predicate of a variant no arm knows, returns a failure to its caller;   *)
(* it never ends the process, so no export on any graph crashes.           *)
C13_NoCrash ==
    export.status # "none" =>
        /\ export.status # "crashed"
        /\ \A x \in 1..Len(export.paths) :
              (\E y \in 1..Len(export.paths[x]) :
                  \/ export.paths[x][y].variant = "core:file_ip_list"
                  \/ export.paths[x][y].variant \notin CoreVariants) =>
                 evaluate_path(export.paths[x], "ascending").status = "err"

-----------------------------------------------------------------------------
(* C14: apply_node enforces the branch constraint of the node kind: on a   *)
(* filter or IP-list node a branch other than "match" or "non-match", and  *)
(* on a family splitter a branch other than "ipv4" or "ipv6", yields a     *)
(* failure and no predicate.                                               *)
C14_BranchChecked ==
    node_output.op = "apply_node" =>
        LET kind == nodes[node_output.node_id].kind
            branch == node_output.output_name
        IN  /\ (kind \in FilterKinds \cup {"FileIpList"} /\ branch \notin {"match", "non-match"})
                  => ~node_output.r.ok
            /\ (kind = "FamilySplitter" /\ branch \notin {"ipv4", "ipv6"})
                  => ~node_output.r.ok

-----------------------------------------------------------------------------
(* C15: apply_node on an IP-list node whose file is unset fails with the   *)
(* configuration failure "IP List file is required", for every incoming    *)
(* path and every branch, and yields no path; with a file set it succeeds  *)
(* and appends to the incoming path one core:file_ip_list predicate that   *)
(* carries the file path and, as rule, the branch.                         *)
C15_FileIpList ==
    (node_output.op = "apply_node" /\ nodes[node_output.node_id].kind = "FileIpList") =>
        LET arg == nodes[node_output.node_id].arg
            r == node_output.r
        IN  IF arg = << >>
            THEN /\ ~r.ok
                 /\ r.err = "IP List file is required"
            ELSE /\ r.ok
                 /\ r.val = node_output.input \o
                            << [variant |-> "core:file_ip_list",
                                params |-> [path |-> arg[1],
                                            rule |-> node_output.output_name]] >>

\* apply_node has failed on an IP list with no file set and an incoming
\* path of two predicates
C15_Witness ==
    /\ node_output.op = "apply_node"
    /\ nodes[node_output.node_id] = [kind |-> "FileIpList", arg |-> << >>]
    /\ Len(node_output.input) = 2
    /\ node_output.output_name = "non-match"
    /\ ~node_output.r.ok

-----------------------------------------------------------------------------
(* C16: every document export produces starts with the Add-Table object,   *)
(* holds no other table object, and every object after the first is a      *)
(* chain or a rule emitted by the lowering of a terminal path that         *)
(* succeeded; with no terminal paths the document is the table alone.      *)
C16_DocumentShape ==
    export.status = "done" =>
        /\ Len(export.document) >= 1
        /\ export.document[1] = Table
        /\ \A k \in 2..Len(export.document) :
              /\ export.document[k].obj \in {"chain", "rule"}
              /\ \E x \in 1..Len(export.paths), order \in HashOrders :
                    /\ evaluate_path(export.paths[x], order).status = "run"
                    /\ \E y \in DOMAIN evaluate_path(export.paths[x], order).objects :
                          evaluate_path(export.paths[x], order).objects[y] = export.document[k]
        /\ export.paths = << >> => export.document = << Table >>

\* an export has produced a document with objects after the table although
\* the lowering of one terminal path failed
C16_Witness ==
    /\ export.status = "done"
    /\ Len(export.document) > 1
    /\ \E x \in 1..Len(export.paths) :
          evaluate_path(export.paths[x], "ascending").status = "err"

-----------------------------------------------------------------------------
-----------------------------------------------------------------------------
(* C18: the chain-name seed depends on the content of the path only: the   *)
(* seed the lowering runs with is the seed the same path gets under every  *)
(* order in which the params of its predicates may be enumerated, so that  *)
(* every chain it emits bears the name another run would give it.          *)
C18_SeedByContent ==
    lower.objects # << >> =>
        \A order \in HashOrders :
            /\ lower.chain_name.seed = path_hash(lpath, order)
            /\ \A k \in DOMAIN lower.objects :
                  lower.objects[k].obj = "chain" =>
                     lower.objects[k].name.seed = path_hash(lpath, order)

-----------------------------------------------------------------------------
(* Direction inference, for the statements below *)

Fixed == {"Incoming", "Outgoing"}

RECURSIVE DownstreamInputs(_, _, _)
\* the inputs in S and every input reached from them through the outputs of
\* their nodes and the connections of those outputs
DownstreamInputs(ns, conns, S) ==
    LET T == S \cup {conns[o] : o \in {q \in DOMAIN conns : \E j \in S : q[1] = j[1]}}
    IN  IF T = S THEN S ELSE DownstreamInputs(ns, conns, T)

-----------------------------------------------------------------------------
(* C19: when the connection of an output with direction Incoming or        *)
(* Outgoing to an input with direction Either is accepted, then after the  *)
(* event that input has the output's direction, and so has every output of *)
(* its node, and so has, recursively, every input connected to one of      *)
(* those outputs and every output of the node of such an input.            *)
C19_DirectionInferred ==
    [][\A input_id \in InputIds(nodes), output_id \in OutputIds(nodes) :
          (/\ last_event' = "accepted"
           /\ out_dir[output_id] \in Fixed
           /\ in_dir[input_id] = "Either"
           /\ ConnectEventEnded(input_id, output_id)) =>
              \A j \in DownstreamInputs(nodes', connections', {input_id}) :
                 /\ in_dir'[j] = out_dir[output_id]
                 /\ \A k \in 1..Len(NodeOutputs(nodes', j[1])) :
                       out_dir'[NodeOutputs(nodes', j[1])[k]] = out_dir[output_id]]_vars

\* the filter in slot 3 is fed by Source and feeds Localhost, and the
\* direction of Source has reached the filter's ports and, through the
\* filter's connection, the output of Localhost
C19_Witness ==
    /\ last_event = "accepted"
    /\ Len(nodes) >= 3
    /\ nodes[3].kind = "SourceAddressFilter"
    /\ <<1, 1>> \in DOMAIN connections /\ connections[<<1, 1>>] = <<3, 1>>
    /\ <<3, 1>> \in DOMAIN connections /\ connections[<<3, 1>>] = <<2, 1>>
    /\ in_dir[<<3, 1>>] = "Incoming"
    /\ out_dir[<<3, 1>>] = "Incoming" /\ out_dir[<<3, 2>>] = "Incoming"
    /\ in_dir[<<2, 1>>] = "Incoming" /\ out_dir[<<2, 1>>] = "Incoming"

-----------------------------------------------------------------------------
(* C20: direction propagation stops at a pinned port: over every step, and *)
(* so over every sequence of connection events, a port whose direction was *)
(* Incoming or Outgoing before the step has the same direction after it,   *)
(* as long as the port exists.                                             *)
C20_PinnedPortsKeep ==
    [][/\ \A p \in (DOMAIN in_dir) \cap (DOMAIN in_dir') :
             in_dir[p] \in Fixed => in_dir'[p] = in_dir[p]
       /\ \A p \in (DOMAIN out_dir) \cap (DOMAIN out_dir') :
             out_dir[p] \in Fixed => out_dir'[p] = out_dir[p]]_vars

-----------------------------------------------------------------------------
(* C21: direction propagation is idempotent: on the graph as it stands,    *)
(* for every input and output taken as trigger, applying                   *)
(* propagate_data_types to the result of propagate_data_types leaves every *)
(* port with the direction the first application gave it.                  *)
C21_PropagationIdempotent ==
    \A input_id \in InputIds(nodes), output_id \in OutputIds(nodes) :
        LET once == propagate_data_types(nodes, connections,
                                         [i |-> in_dir, o |-> out_dir],
                                         input_id, output_id)
        IN  propagate_data_types(nodes, connections, once, input_id, output_id) = once

\* a connection has been accepted on a graph where some trigger still has
\* directions to propagate: an output with a fixed direction and an input
\* with direction Either whose node has outputs
C21_Witness ==
    /\ last_event = "accepted"
    /\ \E input_id \in InputIds(nodes), output_id \in OutputIds(nodes) :
          /\ out_dir[output_id] \in Fixed
          /\ in_dir[input_id] = "Either"
          /\ NodeOutputs(nodes, input_id[1]) # << >>
          /\ propagate_data_types(nodes, connections, [i |-> in_dir, o |-> out_dir],
                                  input_id, output_id) # [i |-> in_dir, o |-> out_dir]

-----------------------------------------------------------------------------
(* C22: the handling of a connection event for (input, output) changes the *)
(* direction of no port when the output's direction is Either, and of no   *)
(* port when the input's direction is Incoming or Outgoing already; for    *)
(* every connection that can be committed on the graph as it stands.       *)
C22_GuardsChangeNothing ==
    \A input_id \in InputIds(nodes), output_id \in OutputIds(nodes) :
        (out_dir[output_id] = "Either" \/ in_dir[input_id] \in Fixed) =>
            connect_event_ended(nodes, add_connection(connections, output_id, input_id),
                                [i |-> in_dir, o |-> out_dir],
                                input_id, output_id).dirs = [i |-> in_dir, o |-> out_dir]

\* the output of Source has been connected to the input of Localhost, built
\* Incoming, and the output of Localhost is Outgoing as built
C22_Witness ==
    /\ last_event = "accepted"
    /\ <<1, 1>> \in DOMAIN connections
    /\ connections[<<1, 1>>] = <<2, 1>>
    /\ out_dir[<<1, 1>>] = "Incoming"
    /\ in_dir[<<2, 1>>] = "Incoming"
    /\ out_dir[<<2, 1>>] = "Outgoing"

-----------------------------------------------------------------------------
(* Comparison of two port types: the specification SpecType.  It starts    *)
(* from any two of the nine types and applies DataType::eq to them, in     *)
(* this order.                                                             *)

InitType ==
    /\ nodes = new_graph_nodes
    /\ connections = << >>
    /\ in_dir = AllFreshInDirs(nodes)
    /\ out_dir = AllFreshOutDirs(nodes)
    /\ last_event = NoEvent
    /\ export = NoExport
    /\ lpath = << >> /\ pos = 1
    /\ lower = lower_init(<< >>, "ascending")
    /\ this_node_inputs = << >> /\ node_output = NoCall
    /\ bridge = NoBridge
    /\ \E self \in DataType, other \in DataType :
          compared = [done |-> FALSE, self |-> self, other |-> other]

\* self == other
DataTypeEq ==
    /\ ~compared.done
    /\ compared' = [done |-> TRUE, self |-> compared.self, other |-> compared.other,
                    eq |-> data_type_eq(compared.self, compared.other)]
    /\ UNCHANGED <<graph_vars, last_event, export, lower_vars, call_vars, bridge>>

NextType == DataTypeEq

SpecType == InitType /\ [][NextType]_vars

-----------------------------------------------------------------------------
(* C23: two port types compare equal if and only if their directions are   *)
(* equal or one of them is Either, and their families are equal or one of  *)
(* them is Inet; comparing a type with itself gives true, and comparing    *)
(* the two types the other way round gives the same result.                *)
C23_Compatibility ==
    compared.done =>
        LET a == compared.self
            b == compared.other
        IN  /\ compared.eq <=>
                  /\ (a.direction = b.direction \/ "Either" \in {a.direction, b.direction})
                  /\ (a.family = b.family \/ "Inet" \in {a.family, b.family})
            /\ a = b => compared.eq
            /\ compared.eq = data_type_eq(b, a)

\* an Incoming IPv4 type has been compared with the wildcard type, and
\* found compatible
C23_Witness ==
    /\ compared.done
    /\ compared.self = [family |-> "IPv4", direction |-> "Incoming"]
    /\ compared.other = [family |-> "Inet", direction |-> "Either"]
    /\ compared.eq

-----------------------------------------------------------------------------
(* The plugin bridge: the specification SpecPlugin.  It follows one call   *)
(* of App::apply_custom_node statement by statement.  bridge is            *)
(* [pc, current_graph_path, input, node_data, output_name, script, child,  *)
(* r]: pc is "entered", "resolved" (script_path built), "spawned",         *)
(* "returned" (r is the Result) or "panicked"; an Option is the empty or   *)
(* the one-element sequence.                                               *)

\* what the file at script_path is: no file, or an executable that reads its
\* standard input to the end and then writes its input path back in the
\* envelope, with empty custom_data
ScriptKinds == {"absent", "echo"}

\* the branches apply_custom_node is called for
BridgeBranches == {"match", "non-match", "out"}

\* the node_data it is called with: a custom node and a built-in one
BridgeNodes ==
    { [kind |-> "Custom", plugin |-> "geo", id |-> "country"],
      [kind |-> "Drop", plugin |-> "", id |-> ""] }

NoChild == [argv |-> << >>, stdin |-> "none", stdout |-> "none", stdin_handle |-> << >>,
            stdout_handle |-> << >>]

InitPlugin ==
    /\ nodes = new_graph_nodes
    /\ connections = << >>
    /\ in_dir = AllFreshInDirs(nodes)
    /\ out_dir = AllFreshOutDirs(nodes)
    /\ last_event = NoEvent
    /\ export = NoExport
    /\ lpath = << >> /\ pos = 1
    /\ lower = lower_init(<< >>, "ascending")
    /\ this_node_inputs = << >> /\ node_output = NoCall
    /\ compared = NoComparison
    /\ \E current_graph_path \in {<< >>, <<"/project">>}, input \in IncomingPaths,
          node_data \in BridgeNodes, output_name \in BridgeBranches,
          script \in ScriptKinds :
          bridge = [pc |-> "entered", current_graph_path |-> current_graph_path,
                    input |-> input, node_data |-> node_data,
                    output_name |-> output_name, script |-> script,
                    child |-> NoChild, r |-> Ok(<< >>)]

\* self.current_graph_path.clone().unwrap(), the let-else on node_data, and
\* the script path
ResolveScript ==
    /\ bridge.pc = "entered"
    /\ bridge' =
          IF bridge.current_graph_path = << >>
          THEN [bridge EXCEPT !.pc = "panicked"]
          ELSE IF bridge.node_data.kind # "Custom"
          THEN [bridge EXCEPT !.pc = "returned", !.r = Err("Node is not custom")]
          ELSE [bridge EXCEPT !.pc = "resolved"]
    /\ UNCHANGED <<graph_vars, last_event, export, lower_vars, call_vars, compared>>

\* Command::new(script_path).arg(output_name).spawn(): no stdin() or stdout()
\* is configured, so the child inherits both streams of the parent and the
\* Child holds no handle to either
SpawnChild ==
    /\ bridge.pc = "resolved"
    /\ bridge' =
          IF bridge.script = "absent"
          THEN [bridge EXCEPT !.pc = "returned",
                              !.r = Err("Cannot execute node script")]
          ELSE [bridge EXCEPT !.pc = "spawned",
                              !.child = [argv |-> << bridge.output_name >>,
                                         stdin |-> "inherit", stdout |-> "inherit",
                                         stdin_handle |-> << >>,
                                         stdout_handle |-> << >>]]
    /\ UNCHANGED <<graph_vars, last_event, export, lower_vars, call_vars, compared>>

\* child.stdin.as_mut().unwrap(): the handle is None, the unwrap panics and
\* the statements after it are never reached
TakeStdin ==
    /\ bridge.pc = "spawned"
    /\ bridge.child.stdin_handle = << >>
    /\ bridge' = [bridge EXCEPT !.pc = "panicked"]
    /\ UNCHANGED <<graph_vars, last_event, export, lower_vars, call_vars, compared>>

NextPlugin == ResolveScript \/ SpawnChild \/ TakeStdin

SpecPlugin == InitPlugin /\ [][NextPlugin]_vars

\* the call is for a custom node of a saved project whose script reads its
\* input to the end and then echoes it in a valid envelope
EchoCall ==
    /\ bridge.pc # "none"
    /\ bridge.current_graph_path # << >>
    /\ bridge.node_data.kind = "Custom"
    /\ bridge.script = "echo"

-----------------------------------------------------------------------------
(* C24: the bridge spawns the script with the branch as its sole argument, *)
(* writes the path to the child's input stream, closes it and reads the    *)
(* child's output; so once the script of such a call has been spawned, the *)
(* child's input and output are pipes held by the parent, and the call     *)
(* goes on to return a result: it never ends otherwise.                    *)
C24_InvokeReturns ==
    (EchoCall /\ bridge.pc \in {"spawned", "returned", "panicked"}) =>
        /\ bridge.child.argv = << bridge.output_name >>
        /\ bridge.child.stdin = "pipe"
        /\ bridge.child.stdout = "pipe"
        /\ bridge.pc # "panicked"

-----------------------------------------------------------------------------
(* C25: for a custom node whose script echoes its input path with empty    *)
(* custom_data, the call ends by returning a path equal to the incoming    *)
(* path: same length, same predicates.                                     *)
C25_RoundTrip ==
    (EchoCall /\ bridge.pc \in {"returned", "panicked"}) =>
        /\ bridge.pc = "returned"
        /\ bridge.r.ok
        /\ bridge.r.val = bridge.input

-----------------------------------------------------------------------------
(* C26: on a graph whose cycles all pass through the node owning the       *)
(* candidate connection's output (the graph before the connection is       *)
(* acyclic, so the committed connection is on every cycle), break_loops    *)
(* reports a cycle if and only if the owning node reaches itself through   *)
(* one or more connections; checked for every connection that could be     *)
(* committed on the graph as it stands.                                    *)
C26_GuardExact ==
    \A input_id \in InputIds(nodes), output_id \in OutputIds(nodes) :
        LET committed == add_connection(connections, output_id, input_id)
        IN  break_loops(nodes, committed, output_id)
               <=> ReachesPlus(nodes, committed, output_id[1], output_id[1])

\* the guard has rejected a connection, and on the graph as it stands it
\* reports a cycle through two nodes for one candidate connection and none
\* for another whose owning node feeds a node already
C26_Witness ==
    /\ last_event = "rejected"
    /\ \E input_id \in InputIds(nodes), output_id \in OutputIds(nodes) :
          /\ input_id[1] # output_id[1]
          /\ break_loops(nodes, add_connection(connections, output_id, input_id), output_id)
    /\ \E input_id \in InputIds(nodes), output_id \in DOMAIN connections :
          ~break_loops(nodes, add_connection(connections, output_id, input_id), output_id)

-----------------------------------------------------------------------------
(* C27: direction inference is applied to accepted connections only: the   *)
(* handling of a connection event in which the cycle guard rejects the     *)
(* connection leaves the direction of every port as it was.                *)
C27_RejectedChangesNoType ==
    [][\A input_id \in InputIds(nodes), output_id \in OutputIds(nodes) :
          (/\ last_event' = "rejected"
           /\ ConnectEventEnded(input_id, output_id)) =>
              /\ in_dir' = in_dir
              /\ out_dir' = out_dir]_vars

-----------------------------------------------------------------------------
(* C28: rejecting a connection rolls the connections back: after a         *)
(* connection event in which the cycle guard rejects the connection, the   *)
(* connections are those of before the attempt, a connection the output    *)
(* carried to another input included.                                      *)
C28_RejectionRollsBack ==
    [][\A input_id \in InputIds(nodes), output_id \in OutputIds(nodes) :
          (/\ last_event' = "rejected"
           /\ ConnectEventEnded(input_id, output_id)) =>
              connections' = connections]_vars

-----------------------------------------------------------------------------
(* C29: after any sequence of connection events, each between ports whose  *)
(* types were compatible when the connection was made, every connection    *)
(* still present joins an output and an input whose types are compatible:  *)
(* no Incoming output is wired to an Outgoing input, nor the reverse.      *)
C29_ConnectionsStayCompatible ==
    \A output_id \in DOMAIN connections :
        data_type_eq(OutputType(nodes, [i |-> in_dir, o |-> out_dir], output_id),
                     InputType(nodes, [i |-> in_dir, o |-> out_dir], connections[output_id]))

-----------------------------------------------------------------------------
(* The handling of a connection event counted in steps: the loop of        *)
(* break_loops one iteration at a time, and the calls of propagate_to_node.*)

\* Iterations of the loop of break_loops allowed for: more than the walk of
\* every path of an acyclic graph of MaxNodes nodes with two outputs each
\* takes, a push and a pop per node visited.
LoopBound == 2 ^ (MaxNodes + 2)

\* Calls of propagate_to_node allowed for: more than the number of paths of
\* such a graph.
CallBound == 2 ^ MaxNodes

\* one iteration of the loop that never compares node_id with root_node_id
break_loops_iteration_no_root_test(ns, conns, root_node_id, stack) ==
    IF stack = << >> THEN [done |-> TRUE, cycle |-> FALSE, stack |-> stack]
    ELSE
      LET top == Last(stack) IN
      IF top.index < Len(top.subtree)
      THEN [done |-> FALSE, cycle |-> FALSE,
            stack |-> Append([stack EXCEPT ![Len(stack)].index = top.index + 1],
                             [index |-> 0,
                              subtree |-> get_connected_receiver_nodes(
                                              ns, conns, top.subtree[top.index + 1])])]
      ELSE [done |-> FALSE, cycle |-> FALSE,
            stack |-> SubSeq(stack, 1, Len(stack) - 1)]

\* one iteration of the loop of break_loops: [done, cycle, stack], done when
\* the function returns (Some(()) if cycle, None otherwise)
break_loops_iteration(ns, conns, root_node_id, stack) ==
    IF stack = << >> THEN [done |-> TRUE, cycle |-> FALSE, stack |-> stack]
    ELSE
      LET top == Last(stack) IN
      IF top.index < Len(top.subtree)
      THEN IF top.subtree[top.index + 1] = root_node_id
           THEN [done |-> TRUE, cycle |-> TRUE, stack |-> stack]
           ELSE [done |-> FALSE, cycle |-> FALSE,
                 stack |-> Append([stack EXCEPT ![Len(stack)].index = top.index + 1],
                                  [index |-> 0,
                                   subtree |-> get_connected_receiver_nodes(
                                                   ns, conns, top.subtree[top.index + 1])])]
      ELSE [done |-> FALSE, cycle |-> FALSE,
            stack |-> SubSeq(stack, 1, Len(stack) - 1)]

RECURSIVE break_loops_run(_, _, _, _, _)
\* the loop run for at most `iterations` iterations
break_loops_run(ns, conns, root_node_id, stack, iterations) ==
    LET r == break_loops_iteration(ns, conns, root_node_id, stack)
    IN  IF r.done \/ iterations = 1 THEN r
        ELSE break_loops_run(ns, conns, root_node_id, r.stack, iterations - 1)

\* break_loops(output_id) run for at most `iterations` iterations of its loop
break_loops_within(ns, conns, output_id, iterations) ==
    break_loops_run(ns, conns, output_id[1],
                    << [index |-> 0,
                        subtree |-> get_connected_receiver_nodes(ns, conns, output_id[1])] >>,
                    iterations)

RECURSIVE propagate_calls_outputs(_, _, _, _)
RECURSIVE propagate_calls(_, _, _, _)

\* the calls left after the loop of propagate_to_node over these outputs,
\* -1 if there were too few
propagate_calls_outputs(ns, conns, outs, calls) ==
    IF outs = << >> \/ calls = -1 THEN calls
    ELSE propagate_calls_outputs(ns, conns, Tail(outs),
            IF Head(outs) \in DOMAIN conns
            THEN propagate_calls(ns, conns, conns[Head(outs)], calls)
            ELSE calls)

\* the calls left of `calls` after propagate_to_node(input_id, _) and the
\* calls it makes, -1 if there were too few
propagate_calls(ns, conns, input_id, calls) ==
    IF calls <= 0 THEN -1
    ELSE propagate_calls_outputs(ns, conns, NodeOutputs(ns, input_id[1]), calls - 1)

-----------------------------------------------------------------------------
(* C30: the handling of a connection event terminates: on every graph the  *)
(* editor reaches, for every connection that can be committed, the loop of *)
(* break_loops returns within LoopBound iterations, with the answer of the *)
(* cycle guard, and the direction propagation that follows, on the         *)
(* connections the guard leaves, returns within CallBound calls.           *)
C30_HandlingTerminates ==
    \A input_id \in InputIds(nodes), output_id \in OutputIds(nodes) :
        LET committed == add_connection(connections, output_id, input_id)
            guard == break_loops_within(nodes, committed, output_id, LoopBound)
            left == connect_event_ended(nodes, committed, [i |-> in_dir, o |-> out_dir],
                                        input_id, output_id).connections
        IN  /\ guard.done
            /\ guard.cycle = break_loops(nodes, committed, output_id)
            /\ propagate_calls(nodes, left, input_id, CallBound) >= 0

\* a connection has been rejected on a graph where one node receives from
\* two outputs, so that the walk of the guard visits it twice
C30_Witness ==
    /\ last_event = "rejected"
    /\ \E o1, o2 \in DOMAIN connections : o1 # o2 /\ connections[o1] = connections[o2]
    /\ \E input_id \in InputIds(nodes), output_id \in OutputIds(nodes) :
          /\ can_connect(nodes, [i |-> in_dir, o |-> out_dir], input_id, output_id)
          /\ break_loops_within(nodes, add_connection(connections, output_id, input_id),
                                output_id, LoopBound).cycle

-----------------------------------------------------------------------------
(* The calls of recurse_node_outputs, followed with the set of the nodes    *)
(* whose call has not returned yet.                                         *)

\* Evaluations of node_outputs allowed for during one collection.
EvalBound == 2 ^ MaxNodes

RECURSIVE recurse_node_outputs_reenters(_, _, _, _, _)
RECURSIVE collect_senders_reenters(_, _, _, _, _)

\* the filter_map over the senders: TRUE iff one of the calls it makes, or a
\* call made from there, is for a node in `active`; st is the memo before
\* the call for the first sender
collect_senders_reenters(ns, conns, senders, st, active) ==
    IF senders = << >> THEN FALSE
    ELSE IF recurse_node_outputs_reenters(ns, conns, Head(senders), st, active) THEN TRUE
    ELSE collect_senders_reenters(ns, conns, Tail(senders),
                                  recurse_node_outputs(ns, conns, Head(senders), st).st,
                                  active)

\* recurse_node_outputs(this_node_id, db) called while the calls for the
\* nodes in `active` are in progress: TRUE iff it is itself such a call or
\* makes one
recurse_node_outputs_reenters(ns, conns, this_node_id, st, active) ==
    IF this_node_id \in active THEN TRUE
    ELSE IF this_node_id \in DOMAIN st.db THEN FALSE
    ELSE IF this_node_id \notin NodeIds(ns) THEN FALSE
    ELSE IF NodeInputs(ns, this_node_id) = << >> THEN FALSE
    ELSE collect_senders_reenters(ns, conns,
                                  get_connected_sender_nodes(ns, conns, this_node_id),
                                  st, active \cup {this_node_id})

-----------------------------------------------------------------------------
(* C31: on every graph the editor reaches, the path collection of export   *)
(* terminates: the resolve of any node, from an empty memo, never calls    *)
(* resolve for a node whose own resolve is still in progress, and the loop *)
(* over all nodes returns after at most EvalBound evaluations.             *)
C31_CollectionTerminates ==
    /\ \A n \in NodeIds(nodes) :
          ~recurse_node_outputs_reenters(nodes, connections, n,
                                         [db |-> << >>, trace |-> << >>], {})
    /\ Len(resolve_all(nodes, connections, iter_nodes(nodes),
                       [db |-> << >>, trace |-> << >>]).st.trace) <= EvalBound

\* Source feeds the filter in slot 3 and the filter feeds Localhost: the
\* resolve of Localhost calls the resolve of the filter, which calls that of
\* Source
C31_Witness ==
    /\ Len(nodes) >= 3
    /\ nodes[3].kind \in FilterKinds
    /\ get_connected_sender_nodes(nodes, connections, 2) = << 3 >>
    /\ get_connected_sender_nodes(nodes, connections, 3) = << 1 >>
    /\ resolve_all(nodes, connections, iter_nodes(nodes),
                   [db |-> << >>, trace |-> << >>]).st.trace = << 1, 3, 2 >>

-----------------------------------------------------------------------------
(* C32: within one export a node whose evaluation succeeded is evaluated   *)
(* exactly once, however often it is resolved (by the loop over all nodes  *)
(* and by each of its dependents); a further resolve of it returns the     *)
(* memo as it is, evaluating nothing; and every sender of a node is        *)
(* evaluated before the node is.                                           *)
C32_MemoizedPerNode ==
    export.status # "none" =>
      /\ \A n \in DOMAIN export.db : Count(export.trace, n) = 1
      /\ \A n \in DOMAIN export.db :
            recurse_node_outputs(nodes, connections, n,
                                 [db |-> export.db, trace |-> export.trace])
              = [ok |-> TRUE, err |-> "",
                 st |-> [db |-> export.db, trace |-> export.trace]]
      /\ \A x \in DOMAIN export.trace :
            LET senders == get_connected_sender_nodes(nodes, connections, export.trace[x])
            IN  \A k \in DOMAIN senders :
                   \E y \in 1..(x - 1) : export.trace[y] = senders[k]

\* an exported graph where one node feeds two others, all three evaluated
\* with success: the shared sender is resolved by the loop over all nodes
\* and by both dependents
C32_Witness ==
    /\ export.status = "done"
    /\ \E s \in DOMAIN export.db :
          \E a, b \in DOMAIN export.db :
             /\ a # b /\ a # s /\ b # s
             /\ \E k \in DOMAIN get_connected_sender_nodes(nodes, connections, a) :
                   get_connected_sender_nodes(nodes, connections, a)[k] = s
             /\ \E k \in DOMAIN get_connected_sender_nodes(nodes, connections, b) :
                   get_connected_sender_nodes(nodes, connections, b)[k] = s
             /\ NodeInputs(nodes, s) # << >>

-----------------------------------------------------------------------------
(* C33: while a path is lowered, is_incoming is true exactly as long as no *)
(* localhost predicate has been processed; the match an interface-filter   *)
(* predicate pushes is on iifname if no localhost predicate precedes it in *)
(* the path and on oifname if one does; and among all predicates, only a   *)
(* source predicate sets is_incoming to true and only a localhost          *)
(* predicate sets it to false.                                             *)
C33_InterfaceByDirection ==
    lower.status \in {"run", "ok"} =>
      /\ lower.is_incoming = ~LocalhostBefore(lpath, pos)
      /\ (pos > 1 /\ lpath[pos - 1].variant = "core:interface_filter") =>
            /\ lower.current_subpath # << >>
            /\ Last(lower.current_subpath).left =
                 (IF LocalhostBefore(lpath, pos - 1) THEN "oifname" ELSE "iifname")
            /\ Last(lower.current_subpath).right = lpath[pos - 1].params["filter"]
      /\ \A predicate \in InnerPredicates \cup TerminalPredicates \cup {SourcePredicate} :
            LET after == lower_step(lower, predicate)
            IN  after.status = "run" =>
                  after.is_incoming =
                    (CASE predicate.variant = "core:source" -> TRUE
                       [] predicate.variant = "core:localhost" -> FALSE
                       [] OTHER -> lower.is_incoming)

\* an interface filter lowered after the localhost predicate: the match
\* pushed is on oifname
C33_Witness ==
    /\ lower.status = "run"
    /\ pos = 4
    /\ lpath[2].variant = "core:localhost"
    /\ lpath[3].variant = "core:interface_filter"
    /\ ~lower.is_incoming
    /\ Len(lower.current_subpath) = 1
    /\ lower.current_subpath[1].left = "oifname"

-----------------------------------------------------------------------------
\* the nodes with an incoming path: Source and what Source reaches
FedBySource(ns, conns) ==
    SourceNodes(ns) \cup
    {n \in NodeIds(ns) : \E src \in SourceNodes(ns) : ReachesPlus(ns, conns, src, n)}

\* the nodes with no output ports
Terminals(ns) == {n \in NodeIds(ns) : NodeOutputs(ns, n) = << >>}

\* every path list of the NodeOutputs is empty
AllEmpty(outputs) == \A name \in DOMAIN outputs : outputs[name] = << >>

(* C34: whenever the collection of terminal paths returns, every path it   *)
(* returns starts with the source predicate and ends with the predicate of *)
(* a terminal node that Source reaches; every node has a memo entry, and   *)
(* the entry of a node Source does not reach holds empty path lists only;  *)
(* the paths are those of the terminal nodes Source reaches, so a terminal *)
(* node with no incoming path adds no path, and with no such terminal node *)
(* the document holds the table alone.  On every graph, resolving a node   *)
(* Source does not reach succeeds with empty path lists.                   *)
C34_PathsFromSourceToTerminal ==
    /\ \A n \in NodeIds(nodes) \ FedBySource(nodes, connections) :
          LET r == recurse_node_outputs(nodes, connections, n,
                                        [db |-> << >>, trace |-> << >>])
          IN  r.ok /\ n \in DOMAIN r.st.db /\ AllEmpty(r.st.db[n])
    /\ export.status \in {"done", "crashed"} =>
          /\ \A x \in DOMAIN export.paths :
                /\ Head(export.paths[x]) = SourcePredicate
                /\ \E t \in Terminals(nodes) \cap FedBySource(nodes, connections) :
                      Last(export.paths[x]) \in PredicatesOf(nodes[t])
          /\ DOMAIN export.db = NodeIds(nodes)
          /\ \A n \in NodeIds(nodes) \ FedBySource(nodes, connections) :
                AllEmpty(export.db[n])
          /\ \A t \in Terminals(nodes) \ FedBySource(nodes, connections) :
                export.db[t] = [name \in {"terminal"} |-> << >>]
          /\ Terminals(nodes) \cap FedBySource(nodes, connections) = {} =>
                /\ export.paths = << >>
                /\ export.status = "done" /\ export.document = << Table >>

\* an export where Source feeds the Drop node and the Accept node is fed by
\* a filter that nothing feeds: one path, none for Accept
C34_Witness ==
    /\ export.status = "done"
    /\ nodes = ExportNodes
    /\ get_connected_sender_nodes(nodes, connections, 6) = << 1 >>
    /\ get_connected_sender_nodes(nodes, connections, 7) = << 3 >>
    /\ get_connected_sender_nodes(nodes, connections, 3) = << >>
    /\ Len(export.paths) = 1
    /\ export.db[7]["terminal"] = << >>
    /\ export.db[3] = [name \in {"match", "non-match"} |-> << >>]

-----------------------------------------------------------------------------
(* C35: the objects the lowering of a path has produced are pairs of a     *)
(* chain and a rule, one pair for each NAT, localhost, drop or accept      *)
(* predicate processed, in path order: the rule of the k-th pair ends with *)
(* the action of the k-th such predicate and names the chain of its pair,  *)
(* the chain is named seed + (k - 1) with seed the hash of the path, and   *)
(* no two chains of the path have the same name.                           *)
C35_ChainRulePairs ==
    lower.status \in {"run", "ok"} =>
      LET flushes == SelectSeq(PositionsOf(lpath, FlushVariants), LAMBDA x : x < pos)
      IN  /\ Len(lower.objects) = 2 * Len(flushes)
          /\ \E order \in HashOrders : lower.chain_name.seed = path_hash(lpath, order)
          /\ lower.chain_name.offset <= Len(flushes)
          /\ \A k \in 1..Len(flushes) :
                LET chain == lower.objects[2 * k - 1]
                    rule == lower.objects[2 * k]
                IN  /\ chain.obj = "chain"
                    /\ rule.obj = "rule"
                    /\ rule.chain = chain.name
                    /\ rule.table = chain.table /\ rule.family = chain.family
                    /\ chain.name = [seed |-> lower.chain_name.seed, offset |-> k - 1]
                    /\ Last(rule.expr).stmt = ActionOf(lpath[flushes[k]].variant)
          /\ \A k, l \in 1..Len(flushes) :
                k # l => lower.objects[2 * k - 1].name # lower.objects[2 * l - 1].name

\* the path Source -> NAT -> Localhost -> Drop has been lowered: three
\* pairs, their chains named seed, seed + 1 and seed + 2
C35_Witness ==
    /\ lower.status = "ok"
    /\ Len(lpath) = 4
    /\ lpath[2].variant \in NatVariants
    /\ lpath[3].variant = "core:localhost"
    /\ lpath[4].variant = "core:drop"
    /\ Len(lower.objects) = 6
    /\ lower.objects[2].chain.offset = 0
    /\ lower.objects[4].chain.offset = 1
    /\ lower.objects[6].chain.offset = 2

-----------------------------------------------------------------------------
\* the nodes of the graph that are of the given kind
NodesOfKind(ns, kind) == {n \in NodeIds(ns) : ns[n].kind = kind}

(* C36: after new_graph and any additions from the node finder, deletions  *)
(* can_delete permits and connection events, the graph holds exactly one   *)
(* Source node and exactly one Localhost node; can_delete refuses both     *)
(* kinds, and the node finder offers neither.                              *)
C36_OneSourceOneLocalhost ==
    /\ Cardinality(NodesOfKind(nodes, "Source")) = 1
    /\ Cardinality(NodesOfKind(nodes, "Localhost")) = 1
    /\ ~can_delete("Source")
    /\ ~can_delete("Localhost")
    /\ \A k \in DOMAIN all_kinds : all_kinds[k] \notin {"Source", "Localhost"}
    /\ \A kind \in FinderKinds : \E k \in DOMAIN all_kinds : all_kinds[k] = kind

\* a node was added and deleted again, and Source was then connected to
\* Localhost
C36_Witness ==
    /\ Len(nodes) = 3
    /\ nodes[3] = NoNode
    /\ <<1, 1>> \in DOMAIN connections
    /\ connections[<<1, 1>>] = <<2, 1>>
    /\ last_event = "accepted"

=============================================================================
